---------------------------- MODULE Spec2Model ----------------------------
(***************************************************************************)
(* Model of the known-value registry of Shards                             *)
(* (src/vendor/bcts-known-values-lite.js, kept in src/unnamed/part_000     *)
(* lines 1294-1513): the KnownValue class with its CBOR codec, the         *)
(* KnownValuesStore with its two maps, and the lazy global registry.       *)
(*                                                                         *)
(* JavaScript values are modelled with their type: a value of the language *)
(* is a record [t |-> type, v |-> payload].  Arbitrary-precision integers  *)
(* are records [neg, mag] where mag is the big-endian base-256 magnitude   *)
(* without leading zero bytes, so that no operation depends on the width   *)
(* of the model checker's integers.  Objects live in heaps (heap for       *)
(* KnownValue instances, maps for Map instances, stores for                *)
(* KnownValuesStore instances) and are referred to by their index, so that *)
(* identity and aliasing are part of the state.                            *)
(***************************************************************************)
EXTENDS Integers, Sequences, FiniteSets, TLC

(***************************************************************************)
(* Arbitrary-precision integers (the bigint type).                         *)
(***************************************************************************)
RECURSIVE StripZeros(_)
StripZeros(m) ==
    IF m = <<>> THEN <<>>
    ELSE IF m[1] = 0 THEN StripZeros(Tail(m)) ELSE m

RECURSIVE NatBytes(_)
NatBytes(n) ==
    IF n = 0 THEN <<>> ELSE Append(NatBytes(n \div 256), n % 256)

Big(neg, mag) ==
    LET m == StripZeros(mag)
    IN  [neg |-> (neg /\ m # <<>>), mag |-> m]

FromInt(i) ==
    IF i < 0 THEN Big(TRUE, NatBytes(0 - i)) ELSE Big(FALSE, NatBytes(i))

RECURSIVE LexLT(_, _)
LexLT(a, b) ==
    IF a = <<>> THEN FALSE
    ELSE IF a[1] # b[1] THEN a[1] < b[1]
    ELSE LexLT(Tail(a), Tail(b))

MagLT(a, b) ==
    IF Len(a) # Len(b) THEN Len(a) < Len(b) ELSE LexLT(a, b)

BigLT(a, b) ==
    IF a.neg /\ ~b.neg THEN TRUE
    ELSE IF ~a.neg /\ b.neg THEN FALSE
    ELSE IF a.neg THEN MagLT(b.mag, a.mag)
    ELSE MagLT(a.mag, b.mag)

BigGT(a, b) == BigLT(b, a)

RECURSIVE MulAdd(_, _, _)
MulAdd(m, k, c) ==
    IF m = <<>> THEN NatBytes(c)
    ELSE LET lo == m[Len(m)] * k + c
         IN  Append(MulAdd(SubSeq(m, 1, Len(m) - 1), k, lo \div 256), lo % 256)

RECURSIVE Pow2Bytes(_)
Pow2Bytes(e) ==
    IF e < 8 THEN <<2 ^ e>> ELSE Append(Pow2Bytes(e - 8), 0)

RECURSIVE AllFF(_)
AllFF(n) ==
    IF n = 0 THEN <<>> ELSE Append(AllFF(n - 1), 255)

\* 2^e, and 2^e - 1, as bigints
Pow2(e) == Big(FALSE, Pow2Bytes(e))

Pow2Minus1(e) ==
    Big(FALSE, IF e % 8 = 0 THEN AllFF(e \div 8)
               ELSE <<2 ^ (e % 8) - 1>> \o AllFF(e \div 8))

\* Number.MAX_SAFE_INTEGER = 2^53 - 1
MAX_SAFE_INTEGER == Pow2Minus1(53)

(***************************************************************************)
(* Bits of a magnitude, for the conversion of a bigint to a double.        *)
(***************************************************************************)
ByteBits(b) ==
    [i \in 1..8 |-> (b \div (2 ^ (8 - i))) % 2]

RECURSIVE MagBits(_)
MagBits(m) ==
    IF m = <<>> THEN <<>> ELSE ByteBits(m[1]) \o MagBits(Tail(m))

RECURSIVE BitsNat(_)
BitsNat(bs) ==
    IF bs = <<>> THEN 0 ELSE 2 * BitsNat(SubSeq(bs, 1, Len(bs) - 1)) + bs[Len(bs)]

RECURSIVE BitsMag(_)
BitsMag(bs) ==
    IF Len(bs) <= 8 THEN <<BitsNat(bs)>>
    ELSE Append(BitsMag(SubSeq(bs, 1, Len(bs) - 8)),
                BitsNat(SubSeq(bs, Len(bs) - 7, Len(bs))))

RECURSIVE IncBits(_)
IncBits(bs) ==
    IF bs = <<>> THEN <<1>>
    ELSE IF bs[Len(bs)] = 0 THEN [bs EXCEPT ![Len(bs)] = 1]
    ELSE Append(IncBits(SubSeq(bs, 1, Len(bs) - 1)), 0)

Zeros(n) == [i \in 1..n |-> 0]

\* the magnitude of the double nearest to the magnitude m (53-bit
\* significand, round half to even)
RoundToDouble(m) ==
    LET bs == StripZeros(MagBits(m))
    IN  IF Len(bs) <= 53 THEN m
        ELSE LET keep == SubSeq(bs, 1, 53)
                 rest == SubSeq(bs, 54, Len(bs))
                 half == <<1>> \o Zeros(Len(rest) - 1)
                 up   == LexLT(half, rest) \/ (rest = half /\ keep[53] = 1)
                 sig  == IF up THEN IncBits(keep) ELSE keep
             IN  StripZeros(BitsMag(sig \o Zeros(Len(rest))))

(***************************************************************************)
(* Values of the language.                                                 *)
(***************************************************************************)
\* a number holding an integer (given as a bigint the double represents)
JsNumber(b) == [t |-> "number", v |-> b]

\* a number that holds no integer (1.5, NaN, Infinity); typeof is number
JsFraction == [t |-> "fraction", v |-> <<>>]

JsBigInt(b) == [t |-> "bigint", v |-> b]

\* a string, as the sequence of its characters
JsString(cs) == [t |-> "string", v |-> cs]

\* undefined, where a name is expected
Undefined == [t |-> "undefined", v |-> <<>>]

\* === on two values
StrictEq(a, b) == a.t = b.t /\ a.v = b.v

Digits == {"0", "1", "2", "3", "4", "5", "6", "7", "8", "9"}

DigitVal(c) ==
    CASE c = "0" -> 0 [] c = "1" -> 1 [] c = "2" -> 2 [] c = "3" -> 3
      [] c = "4" -> 4 [] c = "5" -> 5 [] c = "6" -> 6 [] c = "7" -> 7
      [] c = "8" -> 8 [] c = "9" -> 9

RECURSIVE ParseDigits(_)
ParseDigits(cs) ==
    IF cs = <<>> THEN <<>>
    ELSE MulAdd(ParseDigits(SubSeq(cs, 1, Len(cs) - 1)), 10, DigitVal(cs[Len(cs)]))

AllDigits(cs) == \A i \in 1..Len(cs) : cs[i] \in Digits

Thrown(e) == [err |-> e, v |-> <<>>]

Returned(x) == [err |-> "none", v |-> x]

\* BigInt(x): the conversion of a number, a bigint or a string
ToBigInt(x) ==
    CASE x.t = "bigint" -> Returned(x.v)
      [] x.t = "number" -> Returned(x.v)
      [] x.t = "fraction" -> Thrown("RangeError")
      [] x.t = "string" ->
            IF x.v = <<>> THEN Returned(FromInt(0))
            ELSE IF AllDigits(x.v) THEN Returned(Big(FALSE, ParseDigits(x.v)))
            ELSE IF x.v[1] \in {"-", "+"} /\ Len(x.v) > 1 /\ AllDigits(Tail(x.v))
                 THEN Returned(Big(x.v[1] = "-", ParseDigits(Tail(x.v))))
            ELSE Thrown("SyntaxError")
      [] OTHER -> Thrown("TypeError")

\* Number(b) for a bigint b
ToNumber(b) == JsNumber(Big(b.neg, RoundToDouble(b.mag)))

(***************************************************************************)
(* The binary object codec the class consumes (package @bcts/dcbor):       *)
(* cbor builds an item, cborData encodes an item to bytes, decodeCbor      *)
(* parses bytes to an item.  An item is [type, tag, value].                *)
(***************************************************************************)
Unsigned == 0

Negative == 1

Text == 3

Tagged == 6

MajorType == [Unsigned |-> Unsigned, Negative |-> Negative, Text |-> Text, Tagged |-> Tagged]

TAG_KNOWN_VALUE == 40000

Item(type, tag, value) == [type |-> type, tag |-> tag, value |-> value]

DecMag(m) ==
    LET RECURSIVE Dec(_)
        Dec(x) == IF x[Len(x)] > 0 THEN [x EXCEPT ![Len(x)] = @ - 1]
                  ELSE Append(Dec(SubSeq(x, 1, Len(x) - 1)), 255)
    IN  StripZeros(Dec(m))

IncMag(m) ==
    LET RECURSIVE Inc(_)
        Inc(x) == IF x = <<>> THEN <<1>>
                  ELSE IF x[Len(x)] < 255 THEN [x EXCEPT ![Len(x)] = @ + 1]
                  ELSE Append(Inc(SubSeq(x, 1, Len(x) - 1)), 0)
    IN  Inc(m)

\* cbor(x) for a bigint x
cborBigInt(b) ==
    IF b.neg THEN Item(MajorType.Negative, Undefined, JsBigInt(b))
    ELSE Item(MajorType.Unsigned, Undefined, JsBigInt(b))

\* cbor({tag, value}) for a number tag and a bigint value
cborTagged(tag, b) ==
    Item(MajorType.Tagged, JsNumber(FromInt(tag)), cborBigInt(b))

PadTo(m, n) == Zeros(n - Len(m)) \o m

\* the head of an item: major type and argument, shortest form
EncodeHead(major, m) ==
    IF Len(m) = 0 THEN <<major * 32>>
    ELSE IF Len(m) = 1 /\ m[1] < 24 THEN <<major * 32 + m[1]>>
    ELSE IF Len(m) = 1 THEN <<major * 32 + 24>> \o m
    ELSE IF Len(m) = 2 THEN <<major * 32 + 25>> \o m
    ELSE IF Len(m) <= 4 THEN <<major * 32 + 26>> \o PadTo(m, 4)
    ELSE <<major * 32 + 27>> \o PadTo(m, 8)

RECURSIVE Encodable(_)
Encodable(item) ==
    CASE item.type = Unsigned -> Len(item.value.v.mag) <= 8
      [] item.type = Negative -> Len(DecMag(item.value.v.mag)) <= 8
      [] item.type = Text -> Len(item.value) < 24
      [] item.type = Tagged -> Len(item.tag.v.mag) <= 8 /\ Encodable(item.value)

RECURSIVE EncodeItem(_)
EncodeItem(item) ==
    CASE item.type = Unsigned -> EncodeHead(Unsigned, item.value.v.mag)
      [] item.type = Negative -> EncodeHead(Negative, DecMag(item.value.v.mag))
      [] item.type = Text -> EncodeHead(Text, NatBytes(Len(item.value))) \o item.value
      [] item.type = Tagged ->
            EncodeHead(Tagged, item.tag.v.mag) \o EncodeItem(item.value)

cborData(item) ==
    IF Encodable(item) THEN Returned(EncodeItem(item)) ELSE Thrown("CborError")

\* a decoded integer: a number when it is safe and the decoder prefers
\* numbers, a bigint otherwise
DecodedInt(b, rep) ==
    IF rep = "number" /\ ~BigGT(b, MAX_SAFE_INTEGER) /\ ~BigLT(b, Big(TRUE, MAX_SAFE_INTEGER.mag))
    THEN JsNumber(b) ELSE JsBigInt(b)

NoParse == [ok |-> FALSE, arg |-> <<>>, rest |-> <<>>]

\* the argument of the head at the front of bytes; shortest form required
DecodeHead(bytes) ==
    LET ai == bytes[1] % 32
        n  == CASE ai = 24 -> 1 [] ai = 25 -> 2 [] ai = 26 -> 4 [] ai = 27 -> 8
                [] OTHER -> 0
        raw == SubSeq(bytes, 2, 1 + n)
    IN  IF ai < 24 THEN [ok |-> TRUE, arg |-> NatBytes(ai), rest |-> Tail(bytes)]
        ELSE IF ai > 27 \/ Len(bytes) < 1 + n THEN NoParse
        ELSE IF ai = 24 /\ raw[1] < 24 THEN NoParse
        ELSE IF ai = 25 /\ raw[1] = 0 THEN NoParse
        ELSE IF ai = 26 /\ raw[1] = 0 /\ raw[2] = 0 THEN NoParse
        ELSE IF ai = 27 /\ SubSeq(raw, 1, 4) = Zeros(4) THEN NoParse
        ELSE [ok |-> TRUE, arg |-> StripZeros(raw),
              rest |-> SubSeq(bytes, 2 + n, Len(bytes))]

NoItem == [ok |-> FALSE, item |-> <<>>, rest |-> <<>>]

RECURSIVE DecodeItem(_, _)
DecodeItem(bytes, rep) ==
    IF bytes = <<>> THEN NoItem
    ELSE
    LET major == bytes[1] \div 32
        h     == DecodeHead(bytes)
    IN  IF ~h.ok THEN NoItem
        ELSE CASE major = Unsigned ->
                    [ok |-> TRUE, rest |-> h.rest,
                     item |-> Item(Unsigned, Undefined,
                                   DecodedInt(Big(FALSE, h.arg), rep.value))]
               [] major = Negative ->
                    [ok |-> TRUE, rest |-> h.rest,
                     item |-> Item(Negative, Undefined,
                                   DecodedInt(Big(TRUE, IncMag(h.arg)), rep.value))]
               [] major = Text ->
                    LET n == BitsNat(MagBits(h.arg))
                    IN  IF Len(h.arg) > 1 \/ Len(h.rest) < n THEN NoItem
                        ELSE [ok |-> TRUE, rest |-> SubSeq(h.rest, n + 1, Len(h.rest)),
                              item |-> Item(Text, Undefined, SubSeq(h.rest, 1, n))]
               [] major = Tagged ->
                    LET inner == DecodeItem(h.rest, rep)
                    IN  IF ~inner.ok THEN NoItem
                        ELSE [ok |-> TRUE, rest |-> inner.rest,
                              item |-> Item(Tagged,
                                            DecodedInt(Big(FALSE, h.arg), rep.tag),
                                            inner.item)]
               [] OTHER -> NoItem

\* decodeCbor(data); rep is the decoder's choice of integer representation
decodeCbor(data, rep) ==
    LET d == DecodeItem(data, rep)
    IN  IF d.ok /\ d.rest = <<>> THEN Returned(d.item) ELSE Thrown("CborError")

Reps == [tag : {"number", "bigint"}, value : {"number", "bigint"}]

(***************************************************************************)
(* The hashing primitive the class consumes (package @bcts/components):    *)
(* Digest.fromImage(image) is a fixed-size value computed from the bytes   *)
(* of the image and from nothing else.  Two sums over the bytes stand for  *)
(* it here.                                                                *)
(***************************************************************************)
RECURSIVE ImageSums(_, _, _)
ImageSums(image, a, b) ==
    IF image = <<>> THEN <<a, b>>
    ELSE ImageSums(Tail(image), (a + Head(image)) % 65521,
                   (b + a + Head(image)) % 65521)

fromImage(image) == [_data |-> ImageSums(image, 1, 0)]

(***************************************************************************)
(* class KnownValue.  An instance is [_value, _assignedName]; the methods  *)
(* take the instance as their first argument.                              *)
(***************************************************************************)
KnownValue(value, assignedName) ==
    LET b == IF value.t = "bigint" THEN Returned(value.v) ELSE ToBigInt(value)
    IN  IF b.err # "none" THEN b
        ELSE Returned([_value |-> b.v, _assignedName |-> assignedName])

\* value() that raises from MAX_SAFE_INTEGER on
value_RaisesAtMaxSafe(this) ==
    IF ~BigLT(this._value, MAX_SAFE_INTEGER) THEN Thrown("RangeError")
    ELSE Returned(ToNumber(this._value))

value(this) ==
    IF BigGT(this._value, MAX_SAFE_INTEGER) THEN Thrown("RangeError")
    ELSE Returned(ToNumber(this._value))

valueBigInt(this) == this._value

assignedName(this) == this._assignedName

DigitChar(d) == <<"0", "1", "2", "3", "4", "5", "6", "7", "8", "9">>[d + 1]

\* the magnitude m divided by the small integer k, with the remainder
RECURSIVE DivSmall(_, _, _)
DivSmall(m, k, carry) ==
    IF m = <<>> THEN [q |-> <<>>, r |-> carry]
    ELSE LET cur  == carry * 256 + m[1]
             rest == DivSmall(Tail(m), k, cur % k)
         IN  [q |-> <<cur \div k>> \o rest.q, r |-> rest.r]

RECURSIVE ToDecimal(_)
ToDecimal(m) ==
    IF m = <<>> THEN <<>>
    ELSE LET d == DivSmall(m, 10, 0)
         IN  Append(ToDecimal(StripZeros(d.q)), DigitChar(d.r))

\* b.toString() for a bigint b
BigToString(b) ==
    IF b.mag = <<>> THEN <<"0">>
    ELSE (IF b.neg THEN <<"-">> ELSE <<>>) \o ToDecimal(b.mag)

\* a ?? b
Coalesce(a, b) == IF a = Undefined THEN b ELSE a

name(this) == Coalesce(this._assignedName, JsString(BigToString(this._value)))

\* equals that compares the names as well
equals_ComparesName(this, other) ==
    this._value = other._value /\ this._assignedName = other._assignedName

equals(this, other) == this._value = other._value

\* the four low bytes of a magnitude
Low4(m) == IF Len(m) <= 4 THEN PadTo(m, 4) ELSE SubSeq(m, Len(m) - 3, Len(m))

\* b & 0xffffffffn: the low 32 bits of b in two's complement
AndMask32(b) ==
    IF ~b.neg THEN Big(FALSE, Low4(b.mag))
    ELSE Big(FALSE, [i \in 1..4 |-> 255 - Low4(DecMag(b.mag))[i]])

hashCode(this) == ToNumber(AndMask32(this._value))

\* untaggedCbor that wraps the integer in the tag
untaggedCbor_Tagged(this) == cborTagged(TAG_KNOWN_VALUE, this._value)

untaggedCbor(this) == cborBigInt(this._value)

taggedCbor(this) == cborTagged(TAG_KNOWN_VALUE, this._value)

toCborData(this) == cborData(taggedCbor(this))

\* digest that hashes the assigned name with the encoding
digest_OverName(this) ==
    LET data == toCborData(this)
    IN  IF data.err # "none" THEN data
        ELSE Returned(fromImage(data.v \o <<Len(this._assignedName.v)>>))

digest(this) ==
    LET data == toCborData(this)
    IN  IF data.err # "none" THEN data ELSE Returned(fromImage(data.v))

\* fromUntaggedCbor that takes the payload through a number
fromUntaggedCbor_ViaNumber(cborValue) ==
    IF cborValue.type # MajorType.Unsigned THEN Thrown("Error")
    ELSE LET numValue == cborValue.value
         IN  KnownValue(IF numValue.t = "bigint" THEN ToNumber(numValue.v)
                        ELSE numValue,
                        Undefined)

\* fromUntaggedCbor that takes any integer item
fromUntaggedCbor_AnyInteger(cborValue) ==
    IF cborValue.type \notin {MajorType.Unsigned, MajorType.Negative}
    THEN Thrown("Error")
    ELSE LET numValue == cborValue.value
         IN  KnownValue(IF numValue.t = "bigint" THEN numValue
                        ELSE JsBigInt(ToBigInt(numValue).v),
                        Undefined)

fromUntaggedCbor(cborValue) ==
    IF cborValue.type # MajorType.Unsigned THEN Thrown("Error")
    ELSE LET numValue == cborValue.value
         IN  KnownValue(IF numValue.t = "bigint" THEN numValue
                        ELSE JsBigInt(ToBigInt(numValue).v),
                        Undefined)

\* fromTaggedCbor that compares the tag with the number only
fromTaggedCbor_NumberTagOnly(cborValue) ==
    IF cborValue.type # MajorType.Tagged THEN Thrown("Error")
    ELSE LET tag == cborValue.tag
         IN  IF ~StrictEq(tag, JsNumber(FromInt(TAG_KNOWN_VALUE)))
             THEN Thrown("Error")
             ELSE fromUntaggedCbor(cborValue.value)

fromTaggedCbor(cborValue) ==
    IF cborValue.type # MajorType.Tagged THEN Thrown("Error")
    ELSE LET tag == cborValue.tag
         IN  IF ~StrictEq(tag, JsBigInt(FromInt(TAG_KNOWN_VALUE)))
                /\ ~StrictEq(tag, JsNumber(FromInt(TAG_KNOWN_VALUE)))
             THEN Thrown("Error")
             ELSE fromUntaggedCbor(cborValue.value)

fromCborData(data, rep) ==
    LET cborValue == decodeCbor(data, rep)
    IN  IF cborValue.err # "none" THEN cborValue
        ELSE fromTaggedCbor(cborValue.v)

\* fromCbor that reads the payload of an item with another tag as untagged
fromCbor_UnwrapsOtherTag(cborValue) ==
    IF cborValue.type = MajorType.Tagged
    THEN LET r == fromTaggedCbor(cborValue)
         IN  IF r.err = "none" THEN r ELSE fromUntaggedCbor(cborValue.value)
    ELSE fromUntaggedCbor(cborValue)

fromCbor(cborValue) ==
    IF cborValue.type = MajorType.Tagged THEN fromTaggedCbor(cborValue)
    ELSE fromUntaggedCbor(cborValue)

(***************************************************************************)
(* State.                                                                  *)
(*   heap    the KnownValue instances, by reference                        *)
(*   maps    the Map instances, by reference; a Map is a function from     *)
(*           its keys to KnownValue references                             *)
(*   stores  the KnownValuesStore instances, by reference; a store holds   *)
(*           the references of its two maps                                *)
(*   data    KNOWN_VALUES._data: a store reference, or NoRef for undefined *)
(*   last    the call made last: its name, receiver, argument and outcome, *)
(*           and what the call found (saw): for insert the entry that was  *)
(*           registered for the raw value, for get the value of _data      *)
(***************************************************************************)
VARIABLES heap, maps, stores, data, last

(***************************************************************************)
(* The state of the web application around the library:                    *)
(*   BUILD_ID, worker, caches, event                                       *)
(*           the service worker: its build, its lifecycle state, the       *)
(*           origin's CacheStorage and the event it handled last           *)
(*   inputShares, scanningIndex, call                                      *)
(*           the share inputs of the reconstruct screen, the input a scan  *)
(*           is for, and the handler that ran last                         *)
(*   session the QRScanner component                                       *)
(***************************************************************************)
VARIABLES BUILD_ID, worker, caches, event, inputShares, scanningIndex, call,
          session

known == <<heap, maps, stores, data, last>>

sw == <<BUILD_ID, worker, caches, event>>

shares == <<inputShares, scanningIndex, call>>

app == <<shares, session>>

web == <<sw, app>>

vars == <<known, web>>

\* undefined, where a reference is expected
NoRef == 0

\* bounds of the model
MaxObjs == 1

MaxStores == 2

MaxSeed == 2

Call(op, store, arg, ret, saw) ==
    [op |-> op, store |-> store, arg |-> arg, ret |-> ret, saw |-> saw]

EmptyString == JsString(<<>>)

\* names and raw values the callers use
Names == {Undefined, EmptyString, JsString(<<"n", "o", "t", "e">>),
          JsString(<<"m", "e", "m", "o">>)}

\* the raw values a caller of a store passes to the constructor
RawInputs == [kind : {"number"}, b : {FromInt(4), FromInt(5)}, s : {<<>>}]

\* the value of the language an input stands for
JsValue(in) ==
    CASE in.kind = "number" -> JsNumber(in.b)
      [] in.kind = "bigint" -> JsBigInt(in.b)
      [] in.kind = "string" -> JsString(in.s)
      [] in.kind = "fraction" -> JsFraction

(***************************************************************************)
(* Map                                                                     *)
(***************************************************************************)
MapGet(m, key) == IF key \in DOMAIN m THEN m[key] ELSE NoRef

MapSet(m, key, ref) == [k \in DOMAIN m \cup {key} |-> IF k = key THEN ref ELSE m[k]]

MapDelete(m, key) == [k \in DOMAIN m \ {key} |-> m[k]]

EmptyMap == [k \in {} |-> NoRef]

(***************************************************************************)
(* class KnownValuesStore.  A store is                                     *)
(* [knownValuesByRawValue, knownValuesByAssignedName], two map references. *)
(* _insert and the constructor take and return the heap of maps.           *)
(***************************************************************************)
\* _insert that leaves the replaced entry's name in the name map
_insert_KeepsOldName(ms, this, knownValue) ==
    LET byValue == this.knownValuesByRawValue
        byName  == this.knownValuesByAssignedName
        ms2 == [ms EXCEPT ![byValue] =
                    MapSet(@, valueBigInt(heap[knownValue]), knownValue)]
        newName == assignedName(heap[knownValue])
    IN  IF newName # Undefined /\ newName # EmptyString
        THEN [ms2 EXCEPT ![byName] = MapSet(@, newName, knownValue)]
        ELSE ms2

\* _insert that removes the new entry's name where it should remove the
\* replaced entry's name
_insert_DeletesNewName(ms, this, knownValue) ==
    LET byValue  == this.knownValuesByRawValue
        byName   == this.knownValuesByAssignedName
        existing == MapGet(ms[byValue], valueBigInt(heap[knownValue]))
        newName  == assignedName(heap[knownValue])
        ms1 == IF existing # NoRef /\ newName # Undefined /\ newName # EmptyString
               THEN [ms EXCEPT ![byName] = MapDelete(@, newName)]
               ELSE ms
        ms2 == [ms1 EXCEPT ![byValue] =
                    MapSet(@, valueBigInt(heap[knownValue]), knownValue)]
    IN  IF newName # Undefined /\ newName # EmptyString
        THEN [ms2 EXCEPT ![byName] = MapSet(@, newName, knownValue)]
        ELSE ms2

\* _insert that unregisters the entry of another raw value that holds the
\* new entry's name
_insert_EvictsNameHolder(ms, this, knownValue) ==
    LET byValue  == this.knownValuesByRawValue
        byName   == this.knownValuesByAssignedName
        existing == MapGet(ms[byValue], valueBigInt(heap[knownValue]))
        oldName  == assignedName(heap[existing])
        ms1 == IF existing # NoRef /\ oldName # Undefined /\ oldName # EmptyString
               THEN [ms EXCEPT ![byName] = MapDelete(@, oldName)]
               ELSE ms
        newName == assignedName(heap[knownValue])
        holder  == MapGet(ms1[byName], newName)
        ms2 == IF holder # NoRef
               THEN [ms1 EXCEPT ![byValue] = MapDelete(@, valueBigInt(heap[holder]))]
               ELSE ms1
        ms3 == [ms2 EXCEPT ![byValue] =
                    MapSet(@, valueBigInt(heap[knownValue]), knownValue)]
    IN  IF newName # Undefined /\ newName # EmptyString
        THEN [ms3 EXCEPT ![byName] = MapSet(@, newName, knownValue)]
        ELSE ms3

_insert(ms, this, knownValue) ==
    LET byValue  == this.knownValuesByRawValue
        byName   == this.knownValuesByAssignedName
        existing == MapGet(ms[byValue], valueBigInt(heap[knownValue]))
        oldName  == assignedName(heap[existing])
        ms1 == IF existing # NoRef /\ oldName # Undefined /\ oldName # EmptyString
               THEN [ms EXCEPT ![byName] = MapDelete(@, oldName)]
               ELSE ms
        ms2 == [ms1 EXCEPT ![byValue] =
                    MapSet(@, valueBigInt(heap[knownValue]), knownValue)]
        newName == assignedName(heap[knownValue])
    IN  IF newName # Undefined /\ newName # EmptyString
        THEN [ms2 EXCEPT ![byName] = MapSet(@, newName, knownValue)]
        ELSE ms2

RECURSIVE InsertAll(_, _, _)
InsertAll(ms, this, knownValues) ==
    IF knownValues = <<>> THEN ms
    ELSE LET after == _insert(ms, this, Head(knownValues))
         IN  \* _insert allocates no Map
             IF Len(after) = Len(ms)
             THEN InsertAll(after, this, Tail(knownValues))
             ELSE after

\* the elements of a list whose raw value no earlier element has
RECURSIVE FirstOfEachValue(_)
FirstOfEachValue(knownValues) ==
    IF knownValues = <<>> THEN <<>>
    ELSE LET front == SubSeq(knownValues, 1, Len(knownValues) - 1)
             k     == knownValues[Len(knownValues)]
         IN  IF \E i \in 1..Len(front) :
                    valueBigInt(heap[front[i]]) = valueBigInt(heap[k])
             THEN FirstOfEachValue(front)
             ELSE Append(FirstOfEachValue(front), k)

\* constructor that keeps the first element of each raw value
KnownValuesStore_FirstWins(ms, knownValues) ==
    LET this == [knownValuesByRawValue |-> Len(ms) + 1,
                 knownValuesByAssignedName |-> Len(ms) + 2]
    IN  [this |-> this,
         maps |-> InsertAll(ms \o <<EmptyMap, EmptyMap>>, this,
                            FirstOfEachValue(knownValues))]

\* new KnownValuesStore(knownValues): the two maps are allocated after ms
KnownValuesStore(ms, knownValues) ==
    LET this == [knownValuesByRawValue |-> Len(ms) + 1,
                 knownValuesByAssignedName |-> Len(ms) + 2]
    IN  [this |-> this,
         maps |-> InsertAll(ms \o <<EmptyMap, EmptyMap>>, this, knownValues)]

knownValueNamed(this, n) == MapGet(maps[this.knownValuesByAssignedName], n)

\* knownValueForValue that looks up its argument as it is given
knownValueForValue_NoNormalize(this, rawValue) ==
    IF rawValue.t = "bigint"
    THEN Returned(MapGet(maps[this.knownValuesByRawValue], rawValue.v))
    ELSE Returned(NoRef)

\* knownValueForValue that raises when no entry is registered
knownValueForValue_RaisesOnAbsent(this, rawValue) ==
    LET key == IF rawValue.t = "bigint" THEN Returned(rawValue.v) ELSE ToBigInt(rawValue)
    IN  IF key.err # "none" THEN key
        ELSE IF key.v \notin DOMAIN maps[this.knownValuesByRawValue]
        THEN Thrown("Error")
        ELSE Returned(MapGet(maps[this.knownValuesByRawValue], key.v))

knownValueForValue(this, rawValue) ==
    LET key == IF rawValue.t = "bigint" THEN Returned(rawValue.v) ELSE ToBigInt(rawValue)
    IN  IF key.err # "none" THEN key
        ELSE Returned(MapGet(maps[this.knownValuesByRawValue], key.v))

\* store.assignedName that answers with the name the passed instance carries
store_assignedName_OfInstance(this, knownValue) ==
    LET entry == MapGet(maps[this.knownValuesByRawValue], valueBigInt(heap[knownValue]))
    IN  IF entry = NoRef THEN Undefined ELSE assignedName(heap[knownValue])

\* store.assignedName(knownValue); knownValue is a reference
store_assignedName(this, knownValue) ==
    LET entry == MapGet(maps[this.knownValuesByRawValue], valueBigInt(heap[knownValue]))
    IN  IF entry = NoRef THEN Undefined ELSE assignedName(heap[entry])

\* store.name(knownValue)
store_name(this, knownValue) ==
    Coalesce(store_assignedName(this, knownValue), name(heap[knownValue]))

\* what a static helper returns for an instance: its reference if it is a
\* registered one, NoRef with the instance if it was made by the call
Registered(ref) == [ref |-> ref, obj |-> heap[ref]]

Fresh(obj) == [ref |-> NoRef, obj |-> obj]

\* knownValueForRawValue that never consults the store
knownValueForRawValue_IgnoresStore(rawValue, knownValues) ==
    LET made == KnownValue(rawValue, Undefined)
    IN  IF made.err # "none" THEN made ELSE Returned(Fresh(made.v))

\* KnownValuesStore.knownValueForRawValue(rawValue, knownValues); knownValues
\* is a store reference, or NoRef for undefined
knownValueForRawValue(rawValue, knownValues) ==
    LET found == IF knownValues # NoRef
                 THEN knownValueForValue(stores[knownValues], rawValue)
                 ELSE Returned(NoRef)
        made  == KnownValue(rawValue, Undefined)
    IN  IF found.err # "none" THEN found
        ELSE IF found.v # NoRef THEN Returned(Registered(found.v))
        ELSE IF made.err # "none" THEN made
        ELSE Returned(Fresh(made.v))

\* KnownValuesStore.knownValueForName(name, knownValues)
knownValueForName(n, knownValues) ==
    IF knownValues = NoRef THEN NoRef
    ELSE knownValueNamed(stores[knownValues], n)

\* nameForKnownValue that returns the store's name even if it is empty
nameForKnownValue_KeepsEmpty(knownValue, knownValues) ==
    LET stored == IF knownValues # NoRef
                  THEN store_assignedName(stores[knownValues], knownValue)
                  ELSE Undefined
    IN  IF stored # Undefined THEN stored ELSE name(heap[knownValue])

\* KnownValuesStore.nameForKnownValue(knownValue, knownValues)
nameForKnownValue(knownValue, knownValues) ==
    LET stored == IF knownValues # NoRef
                  THEN store_assignedName(stores[knownValues], knownValue)
                  ELSE Undefined
    IN  IF stored # Undefined /\ stored # EmptyString THEN stored
        ELSE name(heap[knownValue])

\* clone that hands the source's own maps to the new store
clone_SharesMaps(ms, this) ==
    LET fresh == KnownValuesStore(ms, <<>>)
    IN  [this |-> this, maps |-> fresh.maps]

\* clone that moves the entries to the new store and leaves its source empty
clone_TakesEntries(ms, this) ==
    LET fresh  == KnownValuesStore(ms, <<>>)
        cloned == [knownValuesByRawValue |-> Len(fresh.maps) + 1,
                   knownValuesByAssignedName |-> Len(fresh.maps) + 2]
        taken  == [fresh.maps EXCEPT ![this.knownValuesByRawValue] = EmptyMap,
                                     ![this.knownValuesByAssignedName] = EmptyMap]
    IN  [this |-> cloned,
         maps |-> taken \o <<ms[this.knownValuesByRawValue],
                             ms[this.knownValuesByAssignedName]>>]

\* clone(): the store and the heap of maps after the call
clone(ms, this) ==
    LET fresh  == KnownValuesStore(ms, <<>>)
        cloned == [knownValuesByRawValue |-> Len(fresh.maps) + 1,
                   knownValuesByAssignedName |-> Len(fresh.maps) + 2]
    IN  [this |-> cloned,
         maps |-> fresh.maps \o <<ms[this.knownValuesByRawValue],
                                  ms[this.knownValuesByAssignedName]>>]

(***************************************************************************)
(* The standard known values created at module load.  Each is an instance  *)
(* on the heap; the constant names its reference.                          *)
(***************************************************************************)
Const(n, cs) == KnownValue(JsNumber(FromInt(n)), JsString(cs)).v

StandardValues ==
    <<
    Const(0, <<>>),
    Const(1, <<"i", "s", "A">>),
    Const(3, <<"s", "i", "g", "n", "e", "d">>),
    Const(4, <<"n", "o", "t", "e">>),
    Const(5, <<"h", "a", "s", "R", "e", "c", "i", "p", "i", "e", "n", "t">>),
    Const(6, <<"s", "s", "k", "r", "S", "h", "a", "r", "e">>),
    Const(15, <<"s", "a", "l", "t">>),
    Const(16, <<"d", "a", "t", "e">>),
    Const(17, <<"U", "n", "k", "n", "o", "w", "n">>),
    Const(19, <<"h", "a", "s", "S", "e", "c", "r", "e", "t">>),
    Const(23, <<"p", "o", "s", "i", "t", "i", "o", "n">>),
    Const(50, <<"a", "t", "t", "a", "c", "h", "m", "e", "n", "t">>),
    Const(51, <<"v", "e", "n", "d", "o", "r">>),
    Const(52, <<"c", "o", "n", "f", "o", "r", "m", "s", "T", "o">>),
    Const(100, <<"b", "o", "d", "y">>),
    Const(101, <<"r", "e", "s", "u", "l", "t">>),
    Const(102, <<"e", "r", "r", "o", "r">>),
    Const(103, <<"O", "K">>),
    Const(108, <<"c", "o", "n", "t", "e", "n", "t">>),
    Const(701, <<"e", "d", "g", "e">>),
    Const(702, <<"s", "o", "u", "r", "c", "e">>),
    Const(703, <<"t", "a", "r", "g", "e", "t">>)
    >>

UNIT == 1

IS_A == 2

NOTE == 4

HAS_RECIPIENT == 5


\* the list with its last constant left out
StandardList_Short == [i \in 1..(Len(StandardValues) - 1) |-> i]

\* the list LazyKnownValues.get passes to the constructor, as references
StandardList == [i \in 1..Len(StandardValues) |-> i]

(***************************************************************************)
(* The service worker (public/sw.js).  Strings are sequences of            *)
(* characters.  The network, navigation preload and the storage behind     *)
(* cache.put are the environment: each answers or fails.                   *)
(***************************************************************************)
Null == [t |-> "null", v |-> <<>>]

\* !a, for a string, null or undefined
Falsy(a) == a \in {Null, Undefined, EmptyString}

\* a || b
Or(a, b) == IF Falsy(a) THEN b ELSE a

\* s.startsWith(prefix)
startsWith(s, prefix) ==
    Len(prefix) <= Len(s) /\ SubSeq(s, 1, Len(prefix)) = prefix

\* s.includes(part)
includes(s, part) ==
    \E i \in 1..(Len(s) - Len(part) + 1) : SubSeq(s, i, i + Len(part) - 1) = part

CACHE_PREFIX == <<"s", "h", "a", "r", "d", "s", "-", "c", "a", "c", "h", "e", "-">>

\* the build parameter of the script URL
BuildParams == {Null, EmptyString, JsString(<<"v", "2">>)}

CACHE_NAME == CACHE_PREFIX \o BUILD_ID

\* the pathname of the registration's scope
BASE_PATH == <<"/">>

APP_SHELL == BASE_PATH \o <<"i", "n", "d", "e", "x", ".", "h", "t", "m", "l">>

PRECACHE_ASSETS ==
    <<BASE_PATH, APP_SHELL,
      BASE_PATH \o <<"f", "o", "n", "t", "s", "/", "R", "o", "b", "o", "t", "o", "M", "o", "n", "o", "-", "R", "e", "g", "u", "l", "a", "r", ".", "t", "t", "f">>,
      BASE_PATH \o <<"m", "a", "n", "i", "f", "e", "s", "t", ".", "j", "s", "o", "n">>>>

PRECACHE_PATHS == {PRECACHE_ASSETS[i] : i \in 1..Len(PRECACHE_ASSETS)}

STATIC_DESTINATIONS == {"style", "script", "font", "image", "worker"}

\* a Response: its type, its status and its Cache-Control header
Response(type, status, cacheControl) ==
    [type |-> type, status |-> status, cacheControl |-> cacheControl]

\* no response: undefined, or a rejected promise
NoResponse == Response("none", 0, Null)

\* response.ok
ok(response) == response.status \in 200..299

NO_STORE == <<"n", "o", "-", "s", "t", "o", "r", "e">>

\* isCacheableResponse that accepts a partial response
isCacheableResponse_AcceptsPartial(response) ==
    /\ response # NoResponse
    /\ ok(response) \/ response.type = "opaque"
    /\ ~includes(Or(response.cacheControl, EmptyString).v, NO_STORE)

isCacheableResponse(response) ==
    /\ response # NoResponse
    /\ ok(response) \/ response.type = "opaque"
    /\ response.status # 206
    /\ ~includes(Or(response.cacheControl, EmptyString).v, NO_STORE)

\* CacheStorage: the caches in the order of their creation, each a name and
\* the responses stored by request URL
NoEntries == [u \in {} |-> NoResponse]

\* caches.keys()
keys(cs) == [i \in 1..Len(cs) |-> cs[i].name]

\* caches.open(name): the storage after the call
open(cs, cacheName) ==
    IF \E i \in 1..Len(cs) : cs[i].name = cacheName THEN cs
    ELSE Append(cs, [name |-> cacheName, entries |-> NoEntries])

\* cache.put(request, response) on the cache called cacheName
put(cs, cacheName, url, response) ==
    [i \in 1..Len(cs) |->
        IF cs[i].name = cacheName
        THEN [cs[i] EXCEPT !.entries =
                  [u \in DOMAIN @ \cup {url} |-> IF u = url THEN response ELSE @[u]]]
        ELSE cs[i]]

\* caches.delete(name)
delete(cs, cacheName) == SelectSeq(cs, LAMBDA c : c.name # cacheName)

\* caches.match(request): the response of the first cache that has one
match(cs, url) ==
    LET hits == SelectSeq(cs, LAMBDA c : url \in DOMAIN c.entries)
    IN  IF hits = <<>> THEN NoResponse ELSE hits[1].entries[url]

\* the outcome of a handler: the storage after it, the error it raised, the
\* response it returned and the statement that returned it
Outcome(cs, err, response, via) ==
    [caches |-> cs, err |-> err, response |-> response, via |-> via]

\* putInCache(request, response); stored tells whether cache.put succeeds
putInCache(cs, url, response, stored) ==
    IF ~isCacheableResponse(response) THEN Outcome(cs, "none", NoResponse, "none")
    ELSE IF ~stored THEN Outcome(open(cs, CACHE_NAME), "put", NoResponse, "none")
    ELSE Outcome(put(open(cs, CACHE_NAME), CACHE_NAME, url, response),
                 "none", NoResponse, "none")

\* fetchAndCache(request); network is the response of fetch, or NoResponse
\* when fetch rejects
fetchAndCache(cs, url, network, stored) ==
    IF network = NoResponse THEN Outcome(cs, "fetch", NoResponse, "none")
    ELSE LET p == putInCache(cs, url, network, stored)
         IN  IF p.err # "none" THEN p
             ELSE Outcome(p.caches, "none", network, "network")

\* cacheFirst(request)
cacheFirst(cs, url, network, stored) ==
    LET cached == match(cs, url)
    IN  IF cached # NoResponse THEN Outcome(cs, "none", cached, "cache")
        ELSE fetchAndCache(cs, url, network, stored)

\* the catch block of networkFirstForNavigation
offlineFallback(cs, url) ==
    LET cached   == match(cs, url)
        appShell == match(cs, APP_SHELL)
    IN  IF cached # NoResponse THEN Outcome(cs, "none", cached, "cache")
        ELSE IF appShell # NoResponse THEN Outcome(cs, "none", appShell, "shell")
        ELSE Outcome(cs, "navigation", NoResponse, "none")

\* navigation preload: absent, rejected, or resolved with a response
Preload(state, response) == [state |-> state, response |-> response]

networkFirstForNavigation(cs, url, preload, network, stored) ==
    LET tried ==
          IF preload.state = "rejected" THEN Outcome(cs, "preload", NoResponse, "none")
          ELSE IF preload.state = "resolved"
          THEN LET p == putInCache(cs, url, preload.response, stored)
               IN  IF p.err # "none" THEN p
                   ELSE Outcome(p.caches, "none", preload.response, "preload")
          ELSE fetchAndCache(cs, url, network, stored)
    IN  IF tried.err = "none" THEN tried ELSE offlineFallback(tried.caches, url)

\* cache.addAll(urls): every response is fetched and, if all are ok and
\* none is partial, stored
RECURSIVE putAll(_, _, _, _)
putAll(cs, cacheName, urls, response) ==
    IF urls = <<>> THEN cs
    ELSE putAll(put(cs, cacheName, Head(urls), response), cacheName,
                Tail(urls), response)

addAll(cs, cacheName, urls, response) ==
    IF response = NoResponse \/ ~ok(response) \/ response.status = 206
    THEN Outcome(cs, "addAll", NoResponse, "none")
    ELSE Outcome(putAll(cs, cacheName, urls, response), "none", NoResponse, "none")

\* the activate listener's cache cleanup
RECURSIVE deleteAll(_, _)
deleteAll(cs, names) ==
    IF names = <<>> THEN cs
    ELSE deleteAll(delete(cs, Head(names)), Tail(names))

staleKeys(cs) ==
    SelectSeq(keys(cs), LAMBDA key : startsWith(key, CACHE_PREFIX) /\ key # CACHE_NAME)

\* a Request, and the event that carries none
Request(method, mode, cache, url, destination, sameOrigin) ==
    [method |-> method, mode |-> mode, cache |-> cache, url |-> url,
     destination |-> destination, sameOrigin |-> sameOrigin]

NoRequest == Request("none", "none", "none", <<>>, "none", FALSE)

\* the event handled last, the response the network gave for it (by
\* preload or by fetch; NoResponse when it failed), and the outcome
Event(type, request, preload, network, outcome) ==
    [type |-> type, request |-> request,
     network |-> IF preload.state = "none" THEN network ELSE preload.response,
     err |-> outcome.err, response |-> outcome.response, via |-> outcome.via]

NoPreload == Preload("none", NoResponse)

\* the script is evaluated: BUILD_ID from the build parameter of its URL
Evaluate(build) ==
    /\ worker = "none"
    /\ BUILD_ID' = Or(build, JsString(<<"d", "e", "v">>)).v
    /\ worker' = "parsed"
    /\ UNCHANGED <<caches, event>>

\* a cache that exists before the worker is installed, left by another
\* build or by other code of the origin
Earlier(cacheName, response) ==
    /\ worker = "none"
    /\ \A i \in 1..Len(caches) : caches[i].name # cacheName
    /\ caches' = put(open(caches, cacheName), cacheName, APP_SHELL, response)
    /\ UNCHANGED <<BUILD_ID, worker, event>>

\* the install listener; network is what the server answers for the assets
Install(network) ==
    /\ worker = "parsed"
    /\ LET r == addAll(open(caches, CACHE_NAME), CACHE_NAME, PRECACHE_ASSETS, network)
       IN  /\ caches' = r.caches
           /\ worker' = IF r.err = "none" THEN "installed" ELSE "redundant"
           /\ event' = Event("install", NoRequest, NoPreload, network, r)
    /\ UNCHANGED BUILD_ID

\* the message listener
Message(type) ==
    /\ worker = "installed"
    /\ event' = Event("message", NoRequest, NoPreload, NoResponse,
                      Outcome(caches, "none", NoResponse,
                              IF type = "SKIP_WAITING" THEN "skipWaiting" ELSE "none"))
    /\ UNCHANGED <<BUILD_ID, worker, caches>>

\* the activate listener
Activate ==
    /\ worker = "installed"
    /\ caches' = deleteAll(caches, staleKeys(caches))
    /\ worker' = "activated"
    /\ event' = Event("activate", NoRequest, NoPreload, NoResponse,
                      Outcome(caches, "none", NoResponse, "none"))
    /\ UNCHANGED BUILD_ID

\* the fetch listener; an outcome via "default" is a request the listener
\* does not answer
Fetch(request, preload, network, stored) ==
    /\ worker = "activated"
    /\ LET notAnswered == Outcome(caches, "none", NoResponse, "default")
           isSameOrigin == request.sameOrigin
           isStaticDestination == request.destination \in STATIC_DESTINATIONS
           isPrecachedAssetPath == isSameOrigin /\ request.url \in PRECACHE_PATHS
           r == IF request.method # "GET" THEN notAnswered
                ELSE IF request.cache = "only-if-cached" /\ request.mode # "same-origin"
                THEN notAnswered
                ELSE IF request.mode = "navigate"
                THEN networkFirstForNavigation(caches, request.url, preload, network, stored)
                ELSE IF isSameOrigin /\ (isStaticDestination \/ isPrecachedAssetPath)
                THEN cacheFirst(caches, request.url, network, stored)
                ELSE notAnswered
       IN  /\ caches' = r.caches
           /\ event' = Event("fetch", request, preload, network, r)
    /\ UNCHANGED <<BUILD_ID, worker>>

(***************************************************************************)
(* The reconstruct screen of App (src/App.jsx): the list of share inputs   *)
(* and the index of the input a scan is for.  A handler is recorded in     *)
(* call.                                                                   *)
(***************************************************************************)
\* scanningIndex() === null
NullIndex == 0 - 1

MaxShares == 4

Handled(op, index, text) == [op |-> op, index |-> index, value |-> text]

\* a copy of the array current with current[index] = value; an index past
\* the end leaves empty slots before it
SetAt(current, index, text) ==
    [i \in 1..(IF index + 1 > Len(current) THEN index + 1 ELSE Len(current)) |->
        IF i = index + 1 THEN text
        ELSE IF i <= Len(current) THEN current[i]
        ELSE Undefined]

\* current.filter((_, i) => i !== index)
RemoveAt(current, index) ==
    [i \in 1..(IF index + 1 \in 1..Len(current) THEN Len(current) - 1 ELSE Len(current)) |->
        IF index + 1 \in 1..Len(current) /\ i >= index + 1 THEN current[i + 1]
        ELSE current[i]]

goHome ==
    /\ inputShares' = <<EmptyString, EmptyString>>
    /\ call' = Handled("goHome", NullIndex, Undefined)
    /\ UNCHANGED scanningIndex

doAddShareInput ==
    /\ Len(inputShares) < MaxShares
    /\ inputShares' = Append(inputShares, EmptyString)
    /\ call' = Handled("doAddShareInput", NullIndex, Undefined)
    /\ UNCHANGED scanningIndex

\* doRemoveShareInput that removes while more than one input exists
doRemoveShareInput_DownToOne(index) ==
    /\ inputShares' = IF Len(inputShares) > 1 THEN RemoveAt(inputShares, index)
                      ELSE inputShares
    /\ call' = Handled("doRemoveShareInput", index, Undefined)
    /\ UNCHANGED scanningIndex

doRemoveShareInput(index) ==
    /\ inputShares' = IF Len(inputShares) > 2 THEN RemoveAt(inputShares, index)
                      ELSE inputShares
    /\ call' = Handled("doRemoveShareInput", index, Undefined)
    /\ UNCHANGED scanningIndex

doUpdateShareInput(index, text) ==
    /\ inputShares' = SetAt(inputShares, index, text)
    /\ call' = Handled("doUpdateShareInput", index, text)
    /\ UNCHANGED scanningIndex

doStartScan(index) ==
    /\ scanningIndex' = index
    /\ call' = Handled("doStartScan", index, Undefined)
    /\ UNCHANGED inputShares

\* props.onScan of the QRScanner
doHandleScan(scanned) ==
    /\ inputShares' = IF scanningIndex # NullIndex
                      THEN SetAt(inputShares, scanningIndex, scanned)
                      ELSE inputShares
    /\ scanningIndex' = NullIndex
    /\ call' = Handled("doHandleScan", scanningIndex, scanned)

\* props.onClose of the QRScanner
onClose ==
    /\ scanningIndex' = NullIndex
    /\ call' = Handled("onClose", NullIndex, Undefined)
    /\ UNCHANGED inputShares

(***************************************************************************)
(* The QRScanner component (src/App.jsx): one instance, from its creation. *)
(* session holds the variables of its closure, the state of the scanner    *)
(* it creates, its pending timers and the calls it has made.               *)
(***************************************************************************)
MaxDecodes == 3

\* the component as created: handleStart has not run yet
Created ==
    [handleStart |-> "none", scanner |-> "null", didScan |-> FALSE,
     scannedData |-> Null, isActive |-> TRUE, scanned |-> FALSE,
     error |-> FALSE, start |-> "none", stops |-> 0, destroys |-> 0,
     finishScan |-> 0, delivery |-> 0, onScan |-> <<>>, onClose |-> FALSE,
     decodes |-> 0, first |-> Null]

\* stopScanner that keeps the reference to the scanner it destroyed
stopScanner_KeepsReference(q) ==
    IF q.scanner = "null" THEN q
    ELSE [q EXCEPT !.stops = @ + 1, !.destroys = @ + 1]

stopScanner(q) ==
    IF q.scanner = "null" THEN q
    ELSE [q EXCEPT !.stops = @ + 1, !.destroys = @ + 1, !.scanner = "null"]

\* the effect calls handleStart, which runs up to its await
HandleStart ==
    /\ session.handleStart = "none"
    /\ session.isActive
    /\ session' = [session EXCEPT !.handleStart = "awaiting", !.error = FALSE,
                                  !.didScan = FALSE]

\* getQrScanner() resolves: the scanner is created and started
Loaded ==
    /\ session.handleStart = "awaiting"
    /\ session' = IF ~session.isActive
                  THEN [session EXCEPT !.handleStart = "returned"]
                  ELSE [session EXCEPT !.handleStart = "returned",
                                       !.scanner = "QrScanner",
                                       !.start = "pending"]

\* getQrScanner() rejects
LoadFailed ==
    /\ session.handleStart = "awaiting"
    /\ session' = [session EXCEPT !.handleStart = "returned",
                                  !.error = session.isActive]

\* scanner.start() resolves
StartResolved ==
    /\ session.start = "pending"
    /\ session' = [session EXCEPT !.start = "resolved"]

\* scanner.start() rejects
StartRejected ==
    /\ session.start = "pending"
    /\ session' = IF ~session.isActive
                  THEN [session EXCEPT !.start = "rejected"]
                  ELSE stopScanner([session EXCEPT !.start = "rejected",
                                                   !.error = TRUE])

\* a result the scanner passes to the decode callback
Result(kind, text) == [kind |-> kind, text |-> text]

\* typeof result === 'string' ? result : result?.data
dataOf(result) ==
    IF result.kind = "string" THEN result.text
    ELSE IF result.kind = "object" THEN result.text
    ELSE Undefined

\* the decode callback
Decode(result) ==
    /\ session.start # "none"
    /\ session.decodes < MaxDecodes
    /\ LET seen == [session EXCEPT !.decodes = @ + 1,
                        !.first = IF @ = Null /\ ~Falsy(dataOf(result))
                                  THEN dataOf(result) ELSE @]
       IN  session' =
             IF seen.didScan \/ Falsy(dataOf(result)) THEN seen
             ELSE [stopScanner([seen EXCEPT !.didScan = TRUE,
                                            !.scannedData = dataOf(result)])
                   EXCEPT !.scanned = TRUE, !.finishScan = @ + 1]

\* the 400 ms timer runs finishScan
FinishScan ==
    /\ session.finishScan > 0
    /\ session' = [session EXCEPT !.finishScan = @ - 1, !.delivery = @ + 1]

\* the 300 ms timer runs the callback finishScan set
Deliver ==
    /\ session.delivery > 0
    /\ session' = [session EXCEPT !.delivery = @ - 1,
                       !.onScan = IF ~Falsy(session.scannedData)
                                  THEN Append(@, session.scannedData) ELSE @]

\* the Close button, disabled once a code is scanned
handleClose ==
    /\ session.isActive
    /\ ~session.scanned
    /\ session' = [stopScanner(session) EXCEPT !.onClose = TRUE]

\* onCleanup of the effect
Cleanup ==
    /\ session.isActive
    /\ session.handleStart # "none"
    /\ session' = stopScanner([session EXCEPT !.isActive = FALSE])

(***************************************************************************)
(* The operations.                                                         *)
(***************************************************************************)
Init ==
    /\ heap = StandardValues
    /\ maps = <<>>
    /\ stores = <<>>
    /\ data = NoRef
    /\ last = Call("load", NoRef, <<>>, <<>>, NoRef)
    /\ BUILD_ID = <<>>
    /\ worker = "none"
    /\ caches = <<>>
    /\ event = Event("none", NoRequest, NoPreload, NoResponse,
                     Outcome(<<>>, "none", NoResponse, "none"))
    /\ inputShares = <<EmptyString, EmptyString>>
    /\ scanningIndex = NullIndex
    /\ call = Handled("load", NullIndex, Undefined)
    /\ session = Created

\* the instances a caller passes to a store: its own, and the standard NOTE
Insertable == {NOTE} \cup (Len(StandardValues) + 1 .. Len(heap))

StoreRefs == 1..Len(stores)

\* new KnownValue(value, assignedName)
New(in, n) ==
    /\ Len(heap) < Len(StandardValues) + MaxObjs
    /\ LET r == KnownValue(JsValue(in), n)
       IN  /\ heap' = IF r.err = "none" THEN Append(heap, r.v) ELSE heap
           /\ last' = Call("new", NoRef, <<in, n>>,
                           IF r.err = "none" THEN Returned(Len(heap) + 1) ELSE r,
                           NoRef)
    /\ UNCHANGED <<maps, stores, data>>

\* new KnownValuesStore(knownValues)
NewStore(knownValues) ==
    /\ Len(stores) < MaxStores
    /\ LET r == KnownValuesStore(maps, knownValues)
       IN  /\ maps' = r.maps
           /\ stores' = Append(stores, r.this)
           /\ last' = Call("KnownValuesStore", NoRef, knownValues,
                           Returned(Len(stores) + 1), NoRef)
    /\ UNCHANGED <<heap, data>>

\* insert that clears the name of the instance it replaces
Insert_RenamesReplaced(s, k) ==
    LET existing == MapGet(maps[stores[s].knownValuesByRawValue], valueBigInt(heap[k]))
    IN  /\ maps' = _insert(maps, stores[s], k)
        /\ heap' = IF existing # NoRef /\ existing # k
                   THEN [heap EXCEPT ![existing]._assignedName = Undefined]
                   ELSE heap
        /\ last' = Call("insert", s, k, Returned(<<>>), existing)
        /\ UNCHANGED <<stores, data>>

\* store.insert(knownValue)
Insert(s, k) ==
    /\ maps' = _insert(maps, stores[s], k)
    /\ last' = Call("insert", s, k, Returned(<<>>),
                    MapGet(maps[stores[s].knownValuesByRawValue], valueBigInt(heap[k])))
    /\ UNCHANGED <<heap, stores, data>>

\* store.clone()
Clone(s) ==
    /\ Len(stores) < MaxStores
    /\ LET r == clone(maps, stores[s])
       IN  /\ maps' = r.maps
           /\ stores' = Append(stores, r.this)
           /\ last' = Call("clone", s, <<>>, Returned(Len(stores) + 1), NoRef)
    /\ UNCHANGED <<heap, data>>

\* get that builds a store on every call
Get_Rebuilds ==
    /\ Len(stores) < MaxStores
    /\ LET r == KnownValuesStore(maps, [i \in 1..Len(StandardValues) |-> i])
       IN  /\ maps' = r.maps
           /\ stores' = Append(stores, r.this)
           /\ data' = Len(stores) + 1
    /\ last' = Call("get", NoRef, <<>>, Returned(data'), data)
    /\ UNCHANGED heap

\* KNOWN_VALUES.get()
Get ==
    /\ IF data = NoRef
       THEN /\ Len(stores) < MaxStores
            /\ LET r == KnownValuesStore(maps, StandardList)
               IN  /\ maps' = r.maps
                   /\ stores' = Append(stores, r.this)
                   /\ data' = Len(stores) + 1
       ELSE UNCHANGED <<maps, stores, data>>
    /\ last' = Call("get", NoRef, <<>>, Returned(data'), data)
    /\ UNCHANGED heap

SeedLists ==
    UNION {[1..n -> Insertable] : n \in 0..MaxSeed}

\* the callers' own stores
Next ==
    \/ \E in \in RawInputs, n \in Names : New(in, n) /\ UNCHANGED web
    \/ \E ks \in SeedLists : NewStore(ks) /\ UNCHANGED web
    \/ \E s \in StoreRefs, k \in Insertable : Insert(s, k) /\ UNCHANGED web
    \/ \E s \in StoreRefs : Clone(s) /\ UNCHANGED web

Spec == Init /\ [][Next]_vars

\* the lazy global registry, its clones, and the callers that insert into them
RegistryNext ==
    \/ Get /\ UNCHANGED web
    \/ \E in \in RawInputs, n \in Names : New(in, n) /\ UNCHANGED web
    \/ \E s \in StoreRefs, k \in Insertable : Insert(s, k) /\ UNCHANGED web
    \/ \E s \in StoreRefs : Clone(s) /\ UNCHANGED web

RegistrySpec == Init /\ [][RegistryNext]_vars

(***************************************************************************)
(* The lookups of a store and the static helpers.  A caller builds one     *)
(* store, inserts into it, takes one clone of it and queries both; the     *)
(* helpers are called with a store and with no store.                      *)
(***************************************************************************)
\* the raw values looked up: those of the callers' instances, one that no
\* instance has, as numbers and as a bigint
LookupInputs ==
    [kind : {"number"}, b : {FromInt(4), FromInt(5), FromInt(7)}, s : {<<>>}]
    \cup [kind : {"bigint"}, b : {FromInt(4)}, s : {<<>>}]

\* the raw values the caller of the one store constructs instances from: as
\* numbers, and one as a bigint
StoreInputs ==
    RawInputs \cup [kind : {"bigint"}, b : {FromInt(4)}, s : {<<>>}]

\* the instances the caller of the one store inserts: its own, and the
\* standard NOTE and HAS_RECIPIENT
Registrable == Insertable \cup {HAS_RECIPIENT}

\* the optional store argument of a static helper
StoreOpts == {NoRef} \cup StoreRefs

\* store.assignedName(knownValue)
AssignedName(s, k) ==
    /\ last' = Call("store.assignedName", s, k,
                    Returned(store_assignedName(stores[s], k)), NoRef)
    /\ UNCHANGED <<heap, maps, stores, data>>

\* store.name(knownValue)
StoreName(s, k) ==
    /\ last' = Call("store.name", s, k, Returned(store_name(stores[s], k)), NoRef)
    /\ UNCHANGED <<heap, maps, stores, data>>

\* store.knownValueNamed(assignedName)
KnownValueNamed(s, n) ==
    /\ last' = Call("knownValueNamed", s, n,
                    Returned(knownValueNamed(stores[s], n)), NoRef)
    /\ UNCHANGED <<heap, maps, stores, data>>

\* store.knownValueForValue(rawValue)
KnownValueForValue(s, in) ==
    /\ last' = Call("knownValueForValue", s, in,
                    knownValueForValue(stores[s], JsValue(in)), NoRef)
    /\ UNCHANGED <<heap, maps, stores, data>>

\* KnownValuesStore.knownValueForRawValue(rawValue, knownValues)
KnownValueForRawValue(in, so) ==
    /\ last' = Call("knownValueForRawValue", so, in,
                    knownValueForRawValue(JsValue(in), so), NoRef)
    /\ UNCHANGED <<heap, maps, stores, data>>

\* KnownValuesStore.knownValueForName(name, knownValues)
KnownValueForName(n, so) ==
    /\ last' = Call("knownValueForName", so, n,
                    Returned(knownValueForName(n, so)), NoRef)
    /\ UNCHANGED <<heap, maps, stores, data>>

\* KnownValuesStore.nameForKnownValue(knownValue, knownValues)
NameForKnownValue(k, so) ==
    /\ last' = Call("nameForKnownValue", so, k,
                    Returned(nameForKnownValue(k, so)), NoRef)
    /\ UNCHANGED <<heap, maps, stores, data>>

LookupNext ==
    \/ \E in \in StoreInputs, n \in Names : New(in, n) /\ UNCHANGED web
    \/ \E ks \in SeedLists : stores = <<>> /\ NewStore(ks) /\ UNCHANGED web
    \/ \E s \in StoreRefs, k \in Registrable : Len(stores) = 1 /\ Insert(s, k) /\ UNCHANGED web
    \/ \E s \in StoreRefs : Len(stores) = 1 /\ Clone(s) /\ UNCHANGED web
    \/ \E s \in StoreRefs, k \in Insertable : AssignedName(s, k) /\ UNCHANGED web
    \/ \E s \in StoreRefs, k \in Insertable : StoreName(s, k) /\ UNCHANGED web
    \/ \E s \in StoreRefs, n \in Names : KnownValueNamed(s, n) /\ UNCHANGED web
    \/ \E s \in StoreRefs, in \in LookupInputs : KnownValueForValue(s, in) /\ UNCHANGED web
    \/ \E in \in LookupInputs, so \in StoreOpts : KnownValueForRawValue(in, so) /\ UNCHANGED web
    \/ \E n \in Names, so \in StoreOpts : KnownValueForName(n, so) /\ UNCHANGED web
    \/ \E k \in Insertable, so \in StoreOpts : NameForKnownValue(k, so) /\ UNCHANGED web

LookupSpec == Init /\ [][LookupNext]_vars

(***************************************************************************)
(* The KnownValue class on its own: construction from every kind of input, *)
(* the accessors, and the codec.  A decoded instance is returned to the    *)
(* caller, who keeps it in last.ret.                                       *)
(***************************************************************************)
TARGET == Len(StandardValues)

\* the integers the callers of the class use: the raw value of NOTE, around
\* the one-byte form of the encoding, around MAX_SAFE_INTEGER, the largest of the encoding, and a
\* negative one
AnyInts ==
    {FromInt(4), FromInt(24), MAX_SAFE_INTEGER, Pow2(53), Big(FALSE, IncMag(Pow2(53).mag)),
     Pow2Minus1(64), FromInt(0 - 1)}

\* those of them a number holds exactly
NumberInts == {FromInt(4), FromInt(24), MAX_SAFE_INTEGER, Pow2(53), FromInt(0 - 1)}

AnyStrings ==
    {<<"2", "4">>, <<"-", "1">>, <<"x">>,
     <<"9", "0", "0", "7", "1", "9", "9", "2", "5", "4", "7", "4", "0", "9", "9", "3">>}

AnyInputs ==
    [kind : {"number"}, b : NumberInts, s : {<<>>}]
    \cup [kind : {"bigint"}, b : AnyInts, s : {<<>>}]
    \cup [kind : {"string"}, b : {FromInt(0)}, s : AnyStrings]
    \cup [kind : {"fraction"}, b : {FromInt(0)}, s : {<<>>}]

AnyNames == {Undefined, JsString(<<"n", "o", "t", "e">>)}

\* the instances whose methods are called
Receivers == {UNIT, NOTE, TARGET} \cup (Len(StandardValues) + 1 .. Len(heap))

\* the payloads of decoded items: an unsigned integer as a number or as a
\* bigint, a negative integer, a text
PayloadShapes ==
    [type : {Unsigned}, kind : {"number", "bigint"}, b : {FromInt(24)}]
    \cup [type : {Unsigned}, kind : {"bigint"}, b : {Pow2(53)}]
    \cup [type : {Negative, Text}, kind : {"number"}, b : {FromInt(24)}]

\* decoded items, described by their shape: the major type, for a tagged
\* item the tag, its representation and the major type of the payload, and
\* for an integer its representation and value
ItemInputs ==
    {[type |-> p.type, tag |-> TAG_KNOWN_VALUE, tagKind |-> "number",
      inner |-> p.type, kind |-> p.kind, b |-> p.b] : p \in PayloadShapes}
    \cup
    {[type |-> Tagged, tag |-> t[1], tagKind |-> t[2],
      inner |-> p.type, kind |-> p.kind, b |-> p.b] :
        t \in {TAG_KNOWN_VALUE, TAG_KNOWN_VALUE + 1} \X {"number", "bigint"},
        p \in PayloadShapes}

Payload(type, kind, b) ==
    CASE type = Unsigned ->
            Item(Unsigned, Undefined, IF kind = "number" THEN JsNumber(b) ELSE JsBigInt(b))
      [] type = Negative ->
            Item(Negative, Undefined,
                 IF kind = "number" THEN JsNumber(Big(TRUE, b.mag))
                 ELSE JsBigInt(Big(TRUE, b.mag)))
      [] type = Text -> Item(Text, Undefined, <<97>>)

MakeItem(d) ==
    IF d.type = Tagged
    THEN Item(Tagged,
              IF d.tagKind = "number" THEN JsNumber(FromInt(d.tag))
              ELSE JsBigInt(FromInt(d.tag)),
              Payload(d.inner, d.kind, d.b))
    ELSE Payload(d.type, d.kind, d.b)

\* encoded data that no toCborData call produced: the tagged 4, 4 under
\* another tag, a bare 4, a tagged text, a tagged 4 in a longer form than
\* needed, a cut item, and nothing
WireSamples ==
    {<<217, 156, 64, 4>>, <<217, 156, 65, 4>>, <<4>>, <<217, 156, 64, 97, 97>>,
     <<217, 156, 64, 24, 4>>, <<217, 156>>, <<>>}

\* knownValue.value()
Value(k) ==
    /\ last' = Call("value", NoRef, k, value(heap[k]), NoRef)
    /\ UNCHANGED <<heap, maps, stores, data>>

\* knownValue.valueBigInt()
ValueBigInt(k) ==
    /\ last' = Call("valueBigInt", NoRef, k, Returned(valueBigInt(heap[k])), NoRef)
    /\ UNCHANGED <<heap, maps, stores, data>>

\* knownValue.toCborData()
ToCborData(k) ==
    /\ last' = Call("toCborData", NoRef, k, toCborData(heap[k]), NoRef)
    /\ UNCHANGED <<heap, maps, stores, data>>

\* the data the call made last has encoded, if it has
Encoded ==
    IF last.op = "toCborData" /\ last.ret.err = "none" THEN {last.ret.v} ELSE {}

\* KnownValue.fromCborData(data); saw is the instance the data was encoded
\* from, if it comes from the toCborData call made last
FromCborData(bytes, rep) ==
    /\ last' = Call("fromCborData", NoRef, <<bytes, rep>>, fromCborData(bytes, rep),
                    IF bytes \in Encoded THEN last.arg ELSE NoRef)
    /\ UNCHANGED <<heap, maps, stores, data>>

\* knownValue.untaggedCbor()
UntaggedCbor(k) ==
    /\ last' = Call("untaggedCbor", NoRef, k, Returned(untaggedCbor(heap[k])), NoRef)
    /\ UNCHANGED <<heap, maps, stores, data>>

\* the shape of an integer item, or of a tagged integer item
DescOf(item) ==
    IF item.type = Tagged
    THEN [type |-> Tagged, tag |-> BitsNat(MagBits(item.tag.v.mag)),
          tagKind |-> item.tag.t, inner |-> item.value.type,
          kind |-> item.value.value.t, b |-> Big(FALSE, item.value.value.v.mag)]
    ELSE [type |-> item.type, tag |-> TAG_KNOWN_VALUE, tagKind |-> "number",
          inner |-> item.type, kind |-> item.value.t,
          b |-> Big(FALSE, item.value.v.mag)]

\* the decoded forms of the item the untaggedCbor call made last returned,
\* after its trip through cborData and decodeCbor
DecodedUntagged ==
    IF last.op = "untaggedCbor" /\ cborData(last.ret.v).err = "none"
    THEN {DescOf(decodeCbor(cborData(last.ret.v).v, rep).v) : rep \in Reps}
    ELSE {}

\* KnownValue.fromTaggedCbor(item); saw is the instance the item comes from,
\* if it is a decoded form of the untaggedCbor call made last
FromTaggedCbor(d) ==
    /\ last' = Call("fromTaggedCbor", NoRef, d, fromTaggedCbor(MakeItem(d)),
                    IF d \in DecodedUntagged THEN last.arg ELSE NoRef)
    /\ UNCHANGED <<heap, maps, stores, data>>

\* KnownValue.fromUntaggedCbor(item)
FromUntaggedCbor(d) ==
    /\ last' = Call("fromUntaggedCbor", NoRef, d, fromUntaggedCbor(MakeItem(d)),
                    IF d \in DecodedUntagged THEN last.arg ELSE NoRef)
    /\ UNCHANGED <<heap, maps, stores, data>>

\* KnownValue.fromCbor(item)
FromCbor(d) ==
    /\ last' = Call("fromCbor", NoRef, d, fromCbor(MakeItem(d)), NoRef)
    /\ UNCHANGED <<heap, maps, stores, data>>

\* knownValue.name()
Name(k) ==
    /\ last' = Call("name", NoRef, k, Returned(name(heap[k])), NoRef)
    /\ UNCHANGED <<heap, maps, stores, data>>

\* knownValue.equals(other)
Equals(k, other) ==
    /\ last' = Call("equals", NoRef, <<k, other>>,
                    Returned(equals(heap[k], heap[other])), NoRef)
    /\ UNCHANGED <<heap, maps, stores, data>>

\* knownValue.hashCode()
HashCode(k) ==
    /\ last' = Call("hashCode", NoRef, k, Returned(hashCode(heap[k])), NoRef)
    /\ UNCHANGED <<heap, maps, stores, data>>

\* knownValue.digest()
Digest(k) ==
    /\ last' = Call("digest", NoRef, k, digest(heap[k]), NoRef)
    /\ UNCHANGED <<heap, maps, stores, data>>

KnownValueNext ==
    \/ \E in \in AnyInputs, n \in AnyNames : New(in, n) /\ UNCHANGED web
    \/ \E k \in Receivers : Name(k) /\ UNCHANGED web
    \/ \E k, other \in Receivers : Equals(k, other) /\ UNCHANGED web
    \/ \E k \in Receivers : HashCode(k) /\ UNCHANGED web
    \/ \E k \in Receivers : Digest(k) /\ UNCHANGED web
    \/ \E k \in Receivers : Value(k) /\ UNCHANGED web
    \/ \E k \in Receivers : ValueBigInt(k) /\ UNCHANGED web
    \/ \E k \in Receivers : ToCborData(k) /\ UNCHANGED web
    \/ \E bytes \in WireSamples \cup Encoded, rep \in Reps : FromCborData(bytes, rep) /\ UNCHANGED web
    \/ \E k \in Receivers : UntaggedCbor(k) /\ UNCHANGED web
    \/ \E d \in ItemInputs \cup DecodedUntagged : FromTaggedCbor(d) /\ UNCHANGED web
    \/ \E d \in ItemInputs \cup DecodedUntagged : FromUntaggedCbor(d) /\ UNCHANGED web
    \/ \E d \in ItemInputs : FromCbor(d) /\ UNCHANGED web

KnownValueSpec == Init /\ [][KnownValueNext]_vars

(***************************************************************************)
(* The service worker from the evaluation of its script: it is installed,  *)
(* activated, and then answers the page's requests.                        *)
(***************************************************************************)
\* what the environment gives the worker
Plain == Response("basic", 200, Null)

NetworkResponses ==
    {NoResponse, Plain,
     Response("basic", 200, JsString(<<"m", "a", "x", "-", "a", "g", "e", "=", "0", ",", " ", "n", "o", "-", "s", "t", "o", "r", "e">>)),
     Response("basic", 206, Null),
     Response("basic", 404, Null),
     Response("opaque", 0, Null)}

AssetResponses ==
    {NoResponse, Plain, Response("basic", 200, JsString(<<"n", "o", "-", "s", "t", "o", "r", "e">>)),
     Response("basic", 404, Null)}

Preloads ==
    {NoPreload, Preload("rejected", NoResponse), Preload("resolved", Plain)}

EarlierNames ==
    {CACHE_PREFIX \o <<"v", "1">>,
     <<"s", "h", "a", "r", "d", "s", "-", "c", "a", "c", "h", "e">>}

Requests ==
    {Request("GET", "navigate", "default", BASE_PATH, "document", TRUE),
     Request("GET", "navigate", "default", BASE_PATH \o <<"a", "b", "o", "u", "t">>, "document", TRUE),
     Request("POST", "navigate", "default", BASE_PATH, "document", TRUE),
     Request("GET", "no-cors", "default", BASE_PATH \o <<"a", "s", "s", "e", "t", "s", "/", "i", "n", "d", "e", "x", ".", "j", "s">>, "script", TRUE),
     Request("GET", "no-cors", "only-if-cached", BASE_PATH \o <<"a", "s", "s", "e", "t", "s", "/", "i", "n", "d", "e", "x", ".", "j", "s">>, "script", TRUE),
     Request("GET", "cors", "default", BASE_PATH \o <<"m", "a", "n", "i", "f", "e", "s", "t", ".", "j", "s", "o", "n">>, "manifest", TRUE),
     Request("GET", "no-cors", "default", BASE_PATH \o <<"a", "s", "s", "e", "t", "s", "/", "i", "n", "d", "e", "x", ".", "j", "s">>, "script", FALSE)}

\* what the environment answers to a request: a preload only to a
\* navigation, no fetch when there is a preload, and a failing cache.put
\* only when there is a response to store
Answers(request) ==
    {a \in [preload : Preloads, network : NetworkResponses, stored : BOOLEAN] :
        /\ a.preload # NoPreload => request.mode = "navigate" /\ a.network = NoResponse
        /\ ~a.stored => a.preload.state = "resolved" \/ a.network # NoResponse}

WorkerNext ==
    \/ \E build \in BuildParams : Evaluate(build) /\ UNCHANGED <<known, app>>
    \/ \E n \in EarlierNames : Earlier(n, Plain) /\ UNCHANGED <<known, app>>
    \/ \E network \in AssetResponses : Install(network) /\ UNCHANGED <<known, app>>
    \/ \E type \in {"SKIP_WAITING", "PING"} : Message(type) /\ UNCHANGED <<known, app>>
    \/ Activate /\ UNCHANGED <<known, app>>
    \/ \E request \in Requests : \E a \in Answers(request) :
          Fetch(request, a.preload, a.network, a.stored) /\ UNCHANGED <<known, app>>

WorkerSpec == Init /\ [][WorkerNext]_vars

(***************************************************************************)
(* The reconstruct screen, its QRScanner seen through the two callbacks it *)
(* is given; and one QRScanner, its callbacks seen through the calls made. *)
(***************************************************************************)
\* the share texts typed or scanned
ShareTexts == {EmptyString, JsString(<<"A">>)}

ShareInputsNext ==
    \/ goHome /\ UNCHANGED <<known, sw, session>>
    \/ doAddShareInput /\ UNCHANGED <<known, sw, session>>
    \/ \E index \in 0..(Len(inputShares) - 1) :
          doRemoveShareInput(index) /\ UNCHANGED <<known, sw, session>>
    \/ \E index \in 0..(Len(inputShares) - 1), text \in ShareTexts :
          doUpdateShareInput(index, text) /\ UNCHANGED <<known, sw, session>>
    \/ \E index \in 0..(Len(inputShares) - 1) :
          doStartScan(index) /\ UNCHANGED <<known, sw, session>>
    \/ \E scanned \in ShareTexts \ {EmptyString} :
          doHandleScan(scanned) /\ UNCHANGED <<known, sw, session>>
    \/ onClose /\ UNCHANGED <<known, sw, session>>

ShareInputsSpec == Init /\ [][ShareInputsNext]_vars

\* what the scanner decodes: a text, a detailed result, nothing
Results ==
    {Result("string", EmptyString), Result("string", JsString(<<"A">>)),
     Result("object", JsString(<<"B">>)), Result("null", Undefined)}

ScannerNext ==
    \/ HandleStart /\ UNCHANGED <<known, sw, shares>>
    \/ Loaded /\ UNCHANGED <<known, sw, shares>>
    \/ LoadFailed /\ UNCHANGED <<known, sw, shares>>
    \/ StartResolved /\ UNCHANGED <<known, sw, shares>>
    \/ StartRejected /\ UNCHANGED <<known, sw, shares>>
    \/ \E result \in Results : Decode(result) /\ UNCHANGED <<known, sw, shares>>
    \/ FinishScan /\ UNCHANGED <<known, sw, shares>>
    \/ Deliver /\ UNCHANGED <<known, sw, shares>>
    \/ handleClose /\ UNCHANGED <<known, sw, shares>>
    \/ Cleanup /\ UNCHANGED <<known, sw, shares>>

ScannerSpec == Init /\ [][ScannerNext]_vars

(***************************************************************************)
(* Properties of the store.                                                *)
(***************************************************************************)
ByValue(s) == maps[stores[s].knownValuesByRawValue]

ByName(s) == maps[stores[s].knownValuesByAssignedName]

\* all that the lookups of store s can return
Lookups(s) == <<ByValue(s), ByName(s)>>

NonEmptyName(n) == n.t = "string" /\ n.v # <<>>

\* C1: in every store, every entry (n -> K) of the name map has a non-empty
\* n, K's assigned name is n, and the value map holds that same K under K's
\* raw value.
C1_NameMapConsistent ==
    \A s \in StoreRefs :
        \A n \in DOMAIN ByName(s) :
            LET K == ByName(s)[n]
            IN  /\ NonEmptyName(n)
                /\ assignedName(heap[K]) = n
                /\ MapGet(ByValue(s), valueBigInt(heap[K])) = K

\* an insert has replaced a named entry by an entry with another name, and
\* the name map is not empty
C1_Witness ==
    /\ last.op = "insert"
    /\ last.saw # NoRef
    /\ last.saw # last.arg
    /\ NonEmptyName(assignedName(heap[last.saw]))
    /\ DOMAIN ByName(last.store) # {}

\* the step is the second of two inserts into store s, of k1 and then k2,
\* which have one raw value and two distinct non-empty names
RenameStep(s, k1, k2) ==
    /\ last.op = "insert" /\ last.store = s /\ last.arg = k1
    /\ last'.op = "insert" /\ last'.store = s /\ last'.arg = k2
    /\ valueBigInt(heap[k1]) = valueBigInt(heap[k2])
    /\ NonEmptyName(assignedName(heap[k1]))
    /\ NonEmptyName(assignedName(heap[k2]))
    /\ assignedName(heap[k1]) # assignedName(heap[k2])

\* C2: after insert(KnownValue(v, a)) followed by insert(KnownValue(v, b)),
\* a and b distinct and non-empty, knownValueNamed(a) is absent,
\* knownValueNamed(b) is the value with raw value v, and
\* knownValueForValue(v).assignedName() is b.
C2_RenameOnCollision ==
    [][(last.op = "insert" /\ last'.op = "insert") =>
       \A s \in {last.store}, k1 \in {last.arg}, k2 \in 1..Len(heap) :
        RenameStep(s, k1, k2) =>
            LET a == assignedName(heap[k1])
                b == assignedName(heap[k2])
                v == valueBigInt(heap[k2])
            IN  /\ knownValueNamed(stores[s], a)' = NoRef
                /\ knownValueNamed(stores[s], b)' = k2
                /\ knownValueForValue(stores[s], JsBigInt(v))'.v # NoRef
                /\ assignedName(heap[knownValueForValue(stores[s], JsBigInt(v)).v])' = b
      ]_vars

\* an insert has replaced the entry of its raw value, registered under
\* another non-empty name
C2_Witness ==
    /\ last.op = "insert"
    /\ last.saw # NoRef
    /\ NonEmptyName(assignedName(heap[last.saw]))
    /\ NonEmptyName(assignedName(heap[last.arg]))
    /\ assignedName(heap[last.saw]) # assignedName(heap[last.arg])
    /\ knownValueNamed(stores[last.store], assignedName(heap[last.arg])) = last.arg

\* C3: the store clone() returns answers every lookup as its source does at
\* that moment, and an insert into one store changes no lookup of any other
\* store (of the clone's source, or of the source's clones).
C3_CloneIndependence ==
    [][/\ \A s \in StoreRefs, t \in {Len(stores) + 1} :
            (last'.op = "clone" /\ last'.store = s) =>
                /\ last'.ret.v = t
                /\ Lookups(t)' = Lookups(s)
                /\ Lookups(s)' = Lookups(s)
       /\ \A s \in StoreRefs :
            (last'.op = "insert" /\ last'.store # s) => Lookups(s)' = Lookups(s)
      ]_vars

\* an insert into a clone of the registry's store (every store but that one
\* is a clone) has made the two differ
C3_Witness ==
    /\ last.op = "insert"
    /\ data # NoRef
    /\ last.store # data
    /\ Lookups(last.store) # Lookups(data)

\* C4: no store exists before the first get(), the first get() builds it,
\* and every later get() returns that same store and builds nothing.
C4_BuiltOnce ==
    [][/\ (data = NoRef /\ stores = <<>> /\ last'.op = "get") =>
            /\ Len(stores') = 1
            /\ data' = 1
            /\ last'.ret.v = data'
       /\ data # NoRef =>
            /\ data' = data
            /\ last'.op = "get" =>
                 /\ last'.ret.v = data
                 /\ stores' = stores
                 /\ maps' = maps
      ]_vars

\* get() has been called with the store already built
C4_Witness ==
    /\ last.op = "get"
    /\ last.saw # NoRef
    /\ last.ret.v = last.saw

StandardRefs == 1..Len(StandardValues)

\* get() has just built the store
JustBuilt == last.op = "get" /\ last.saw = NoRef

StandardDistinct ==
    \A i, j \in StandardRefs :
        i # j => /\ valueBigInt(heap[i]) # valueBigInt(heap[j])
                 /\ assignedName(heap[i]) # assignedName(heap[j])

\* C5 as claimed: the standard values have distinct raw values and distinct
\* names, and the store get() builds returns each of them for its raw value
\* and for its name.
C5_Claimed ==
    JustBuilt =>
        /\ StandardDistinct
        /\ \A i \in StandardRefs :
            /\ knownValueForValue(stores[data], JsBigInt(valueBigInt(heap[i]))).v = i
            /\ knownValueNamed(stores[data], assignedName(heap[i])) = i

\* C5 as amended: as claimed, but a standard value is returned for its name
\* only if the name is not empty; the one with the empty name (raw value 0)
\* is returned for its raw value only, and the empty name resolves to nothing.
C5_StandardValuesResolve ==
    JustBuilt =>
        /\ StandardDistinct
        /\ \A i \in StandardRefs :
            /\ knownValueForValue(stores[data], JsBigInt(valueBigInt(heap[i]))).v = i
            /\ NonEmptyName(assignedName(heap[i])) =>
                 knownValueNamed(stores[data], assignedName(heap[i])) = i
        /\ knownValueNamed(stores[data], EmptyString) = NoRef
        /\ valueBigInt(heap[knownValueNamed(stores[data], JsString(<<"i", "s", "A">>))])
             = FromInt(1)

\* get() has just built the store, and isA resolves
C5_Witness ==
    /\ JustBuilt
    /\ knownValueNamed(stores[data], JsString(<<"i", "s", "A">>)) = IS_A
    /\ assignedName(heap[UNIT]) = EmptyString

(***************************************************************************)
(* Properties of the KnownValue class.                                     *)
(***************************************************************************)
\* C6: decoding with fromCborData the data toCborData produced for a
\* KnownValue with a non-negative raw value v gives a KnownValue whose
\* valueBigInt() is v, also for v above 2^53 - 1.
C6_TaggedRoundTrip ==
    (last.op = "fromCborData" /\ last.saw # NoRef
        /\ ~BigLT(valueBigInt(heap[last.saw]), FromInt(0))) =>
            /\ last.ret.err = "none"
            /\ valueBigInt(last.ret.v) = valueBigInt(heap[last.saw])

\* data encoded from a raw value above 2^53 - 1 has been decoded
C6_Witness ==
    /\ last.op = "fromCborData"
    /\ last.saw # NoRef
    /\ BigGT(valueBigInt(heap[last.saw]), MAX_SAFE_INTEGER)
    /\ last.ret.err = "none"
    /\ BigGT(valueBigInt(last.ret.v), MAX_SAFE_INTEGER)

IsReservedTag(d) == d.type = Tagged /\ d.tag = TAG_KNOWN_VALUE

\* C7 as claimed: fromTaggedCbor succeeds if and only if the item is tagged
\* and its tag, as a number or as a bigint, is the reserved one.
C7_Claimed ==
    last.op = "fromTaggedCbor" =>
        (last.ret.err = "none" <=> IsReservedTag(last.arg))

\* C7 as amended: fromTaggedCbor succeeds if and only if the item is tagged,
\* its tag, as a number or as a bigint, is the reserved one, and the payload
\* is an unsigned integer; otherwise it raises a decode error and returns no
\* KnownValue, whatever the payload.
C7_TagChecked ==
    last.op = "fromTaggedCbor" =>
        /\ last.ret.err = "none" <=>
             (IsReservedTag(last.arg) /\ last.arg.inner = Unsigned)
        /\ last.ret.err = "none" =>
             valueBigInt(last.ret.v)
                = MakeItem(last.arg).value.value.v
        /\ last.ret.err # "none" => (last.ret.err = "Error" /\ last.ret.v = <<>>)

\* an item with the reserved tag as a bigint has been accepted, or an item
\* with another tag and an unsigned payload has been rejected
C7_Witness ==
    /\ last.op = "fromTaggedCbor"
    /\ last.arg.type = Tagged
    /\ last.arg.inner = Unsigned
    /\ \/ last.arg.tag = TAG_KNOWN_VALUE /\ last.arg.tagKind = "bigint"
             /\ last.ret.err = "none"
       \/ last.arg.tag # TAG_KNOWN_VALUE /\ last.ret.err = "Error"

Decoders == {"fromUntaggedCbor", "fromTaggedCbor", "fromCborData", "fromCbor"}

\* C8: fromUntaggedCbor raises a decode error for every item that is no
\* unsigned integer; for an unsigned integer it returns a KnownValue with the
\* payload as raw value and no assigned name; and no decoding operation
\* returns a KnownValue with a name.
C8_UntaggedDecode ==
    /\ last.op = "fromUntaggedCbor" =>
         IF last.arg.type = Unsigned
         THEN /\ last.ret.err = "none"
              /\ valueBigInt(last.ret.v) = last.arg.b
              /\ assignedName(last.ret.v) = Undefined
         ELSE last.ret = Thrown("Error")
    /\ (last.op \in Decoders /\ last.ret.err = "none") =>
         assignedName(last.ret.v) = Undefined

\* the data of a named KnownValue has been decoded, or fromUntaggedCbor has
\* rejected an item
C8_Witness ==
    \/ /\ last.op = "fromCborData"
       /\ last.saw # NoRef
       /\ assignedName(heap[last.saw]) # Undefined
       /\ last.ret.err = "none"
    \/ /\ last.op = "fromUntaggedCbor"
       /\ last.arg.type # Unsigned
       /\ last.ret.err = "Error"

\* C9: value() raises the range error exactly when the raw value is 2^53 or
\* more, returns the raw value as a number otherwise, and valueBigInt()
\* returns the raw value.
C9_SafeIntegerBoundary ==
    /\ last.op = "value" =>
         LET raw == heap[last.arg]._value
         IN  IF BigLT(raw, Pow2(53)) THEN last.ret = Returned(JsNumber(raw))
             ELSE last.ret = Thrown("RangeError")
    /\ last.op = "valueBigInt" =>
         last.ret = Returned(heap[last.arg]._value)

\* value() has been called on a KnownValue with raw value 2^53, or with
\* raw value 2^53 - 1
C9_Witness ==
    /\ last.op = "value"
    /\ \/ heap[last.arg]._value = Pow2(53) /\ last.ret.err = "RangeError"
       \/ heap[last.arg]._value = MAX_SAFE_INTEGER /\ last.ret.err = "none"

\* C10 as claimed: no KnownValue has a negative raw value, whatever the
\* constructor was given, and no store holds one.
C10_Claimed ==
    /\ \A k \in 1..Len(heap) : ~BigLT(heap[k]._value, FromInt(0))
    /\ \A m \in 1..Len(maps) : \A key \in DOMAIN maps[m] :
         ~BigLT(heap[maps[m][key]]._value, FromInt(0))

\* b modulo 2^32, for a bigint b
Mod32(b) ==
    LET r == StripZeros(Low4(b.mag))
    IN  IF ~b.neg \/ r = <<>> THEN Big(FALSE, r)
        ELSE Big(FALSE, Low4(IncMag([i \in 1..4 |-> 255 - PadTo(r, 4)[i]])))

SameRaw(x, y) == ~BigLT(x._value, y._value) /\ ~BigLT(y._value, x._value)

\* C11: x.equals(y) is true if and only if the raw values of x and y are
\* equal, whatever their assigned names; x.equals(y) implies that the hash
\* codes are equal; and hashCode() is the raw value modulo 2^32, as a number.
C11_EqualityIgnoresName ==
    /\ last.op = "equals" =>
         LET x == heap[last.arg[1]]
             y == heap[last.arg[2]]
         IN  /\ last.ret = Returned(SameRaw(x, y))
             /\ last.ret.v => hashCode(x) = hashCode(y)
    /\ last.op = "hashCode" =>
         last.ret = Returned(JsNumber(Mod32(heap[last.arg]._value)))

\* two instances with one raw value and two names have been found equal
C11_Witness ==
    /\ last.op = "equals"
    /\ last.arg[1] # last.arg[2]
    /\ assignedName(heap[last.arg[1]]) # assignedName(heap[last.arg[2]])
    /\ last.ret.v

\* C12 as claimed: name() returns the assigned name if it is a non-empty
\* string, and the decimal string of the raw value if the name is absent or
\* the empty string.
C12_Claimed ==
    last.op = "name" =>
        LET this == heap[last.arg]
        IN  IF NonEmptyName(assignedName(this))
            THEN last.ret = Returned(assignedName(this))
            ELSE last.ret = Returned(JsString(BigToString(valueBigInt(this))))

(***************************************************************************)
(* Properties of the lookups.                                              *)
(***************************************************************************)
StoreOps ==
    {"KnownValuesStore", "insert", "store.assignedName", "store.name",
     "knownValueNamed", "knownValueForValue", "knownValueForRawValue",
     "knownValueForName", "nameForKnownValue"}

LookupOps == StoreOps \ {"KnownValuesStore", "insert"}

\* the instances store s holds for the raw value raw, and under the name n
EntriesFor(s, raw) == {ref \in {ByValue(s)[key] : key \in DOMAIN ByValue(s)} :
                        heap[ref]._value = raw}

EntriesNamed(s, n) == {ref \in {ByName(s)[key] : key \in DOMAIN ByName(s)} :
                        heap[ref]._assignedName = n}

\* C13: the constructor, insert, the lookups and the static helpers return
\* normally in every store state; a lookup of a raw value or a name that
\* has no entry returns undefined; and no lookup changes a store.
C13_NoStoreOperationThrows ==
    [][/\ last'.op \in StoreOps => last'.ret.err = "none"
       /\ last'.op \in LookupOps => (maps' = maps /\ stores' = stores)
       /\ (last'.op = "knownValueForValue"
              /\ EntriesFor(last'.store, last'.arg.b) = {}) =>
            last'.ret.v = NoRef
       /\ (last'.op \in {"knownValueNamed", "knownValueForName"}
              /\ (last'.store = NoRef \/ EntriesNamed(last'.store, last'.arg) = {})) =>
            last'.ret.v = NoRef
       /\ (last'.op = "store.assignedName"
              /\ EntriesFor(last'.store, heap[last'.arg]._value) = {}) =>
            last'.ret.v = Undefined
      ]_vars

\* a raw value that has no entry has been looked up in a store that has
\* entries
C13_Witness ==
    /\ last.op = "knownValueForValue"
    /\ DOMAIN ByValue(last.store) # {}
    /\ EntriesFor(last.store, last.arg.b) = {}
    /\ last.ret = Returned(NoRef)

\* C14: store.assignedName(k) is the assigned name of the entry registered
\* for k's raw value, whatever name k carries (so it is the same for every
\* instance with that raw value), and undefined if there is no such entry.
C14_StoreAssignedName ==
    last.op = "store.assignedName" =>
        LET raw == heap[last.arg]._value
        IN  /\ IF EntriesFor(last.store, raw) = {}
               THEN last.ret.v = Undefined
               ELSE \A e \in EntriesFor(last.store, raw) :
                        last.ret.v = heap[e]._assignedName
            /\ \A k \in 1..Len(heap) :
                    heap[k]._value = raw =>
                        store_assignedName(stores[last.store], k) = last.ret.v

\* the store has answered with a name that the passed instance does not
\* carry
C14_Witness ==
    /\ last.op = "store.assignedName"
    /\ EntriesFor(last.store, heap[last.arg]._value) # {}
    /\ NonEmptyName(last.ret.v)
    /\ last.ret.v # heap[last.arg]._assignedName

\* C15: knownValueForRawValue(v, store) returns normally; with a store that
\* has an entry for v it returns that entry, the registered instance itself;
\* otherwise it returns a new KnownValue with raw value v and no assigned
\* name; and it changes no store.
C15_KnownValueForRawValue ==
    [][last'.op = "knownValueForRawValue" =>
        /\ last'.ret.err = "none"
        /\ maps' = maps
        /\ IF last'.store # NoRef /\ EntriesFor(last'.store, last'.arg.b) # {}
           THEN /\ last'.ret.v.ref \in EntriesFor(last'.store, last'.arg.b)
                /\ last'.ret.v.obj = heap[last'.ret.v.ref]
           ELSE /\ last'.ret.v.ref = NoRef
                /\ last'.ret.v.obj._value = last'.arg.b
                /\ last'.ret.v.obj._assignedName = Undefined
      ]_vars

\* the helper has returned a registered instance that has a name
C15_Witness ==
    /\ last.op = "knownValueForRawValue"
    /\ last.store # NoRef
    /\ last.ret.v.ref # NoRef
    /\ NonEmptyName(last.ret.v.obj._assignedName)

\* C16: nameForKnownValue(k, store) is the assigned name of the store's
\* entry for k's raw value if a store is given, has such an entry and the
\* entry's name is a non-empty string; in every other case it is k.name().
C16_NameForKnownValue ==
    last.op = "nameForKnownValue" =>
        LET found == IF last.store = NoRef THEN {}
                     ELSE EntriesFor(last.store, heap[last.arg]._value)
        IN  IF found # {} /\ \A e \in found : NonEmptyName(heap[e]._assignedName)
            THEN \A e \in found : last.ret.v = heap[e]._assignedName
            ELSE last.ret.v = name(heap[last.arg])

\* the store's entry has the empty name or none, and the helper has
\* answered with the name of the passed instance
C16_Witness ==
    /\ last.op = "nameForKnownValue"
    /\ last.store # NoRef
    /\ EntriesFor(last.store, heap[last.arg]._value) # {}
    /\ NonEmptyName(heap[last.arg]._assignedName)
    /\ last.ret.v = heap[last.arg]._assignedName
    /\ \A e \in EntriesFor(last.store, heap[last.arg]._value) :
           ~NonEmptyName(heap[e]._assignedName)

\* the step is the second of two inserts into store s, of k1 and then k2,
\* which have two raw values and one non-empty name
SameNameStep(s, k1, k2) ==
    /\ last.op = "insert" /\ last.store = s /\ last.arg = k1
    /\ last'.op = "insert" /\ last'.store = s /\ last'.arg = k2
    /\ valueBigInt(heap[k1]) # valueBigInt(heap[k2])
    /\ NonEmptyName(assignedName(heap[k1]))
    /\ assignedName(heap[k1]) = assignedName(heap[k2])

\* C17: after insert(KnownValue(a, n)) followed by insert(KnownValue(b, n)),
\* a and b distinct and n non-empty, knownValueNamed(n) is the value with
\* raw value b, knownValueForValue(a) and knownValueForValue(b) are still
\* the two values, and both have assigned name n.
C17_SameNameTwoValues ==
    [][(last.op = "insert" /\ last'.op = "insert") =>
       \A s \in {last.store}, k1 \in {last.arg}, k2 \in 1..Len(heap) :
        SameNameStep(s, k1, k2) =>
            LET n == assignedName(heap[k1])
                a == valueBigInt(heap[k1])
                b == valueBigInt(heap[k2])
            IN  /\ knownValueNamed(stores[s], n)' = k2
                /\ knownValueForValue(stores[s], JsBigInt(a))' = Returned(k1)
                /\ knownValueForValue(stores[s], JsBigInt(b))' = Returned(k2)
                /\ store_assignedName(stores[s], k1)' = n
                /\ store_assignedName(stores[s], k2)' = n
      ]_vars

\* two raw values are registered with one name, and the name resolves to
\* the one inserted last
C17_Witness ==
    /\ last.op = "insert"
    /\ NonEmptyName(assignedName(heap[last.arg]))
    /\ knownValueNamed(stores[last.store], assignedName(heap[last.arg])) = last.arg
    /\ \E e \in {ByValue(last.store)[key] : key \in DOMAIN ByValue(last.store)} :
           /\ valueBigInt(heap[e]) # valueBigInt(heap[last.arg])
           /\ assignedName(heap[e]) = assignedName(heap[last.arg])

\* C18 as claimed: in every store, every registered entry with a non-empty
\* name is the one its name resolves to, and every name resolves to an entry
\* that is the one registered for its raw value and carries that name; so no
\* name is dangling and no two registered raw values have one name.
C18_Claimed ==
    \A s \in StoreRefs :
        /\ \A key \in DOMAIN ByValue(s) :
              NonEmptyName(assignedName(heap[ByValue(s)[key]])) =>
                knownValueNamed(stores[s], assignedName(heap[ByValue(s)[key]]))
                    = ByValue(s)[key]
        /\ \A n \in DOMAIN ByName(s) :
              /\ assignedName(heap[ByName(s)[n]]) = n
              /\ knownValueForValue(stores[s],
                                    JsBigInt(valueBigInt(heap[ByName(s)[n]])))
                    = Returned(ByName(s)[n])

\* C19: digest() is the hash of the data toCborData() gives and of nothing
\* else: instances with equal raw values have equal digests whatever their
\* assigned names, instances with equal data have equal digests, and a
\* second call on one instance gives the digest of the first.
C19_DigestOfEncoding ==
    last.op = "digest" =>
        /\ last.ret.err = "none" =>
              last.ret.v = fromImage(toCborData(heap[last.arg]).v)
        /\ \A k \in Receivers :
              (SameRaw(heap[k], heap[last.arg])
                 \/ toCborData(heap[k]) = toCborData(heap[last.arg])) =>
                    digest(heap[k]) = last.ret

\* the digest of an instance has been taken while another instance has its
\* raw value and another name
C19_Witness ==
    /\ last.op = "digest"
    /\ last.ret.err = "none"
    /\ \E k \in Receivers :
           /\ k # last.arg
           /\ valueBigInt(heap[k]) = valueBigInt(heap[last.arg])
           /\ assignedName(heap[k]) # assignedName(heap[last.arg])

\* C20: fromCbor gives for a tagged item what fromTaggedCbor gives for it,
\* so for an item with another tag than the reserved one a decode error
\* whatever the payload, and for every other item what fromUntaggedCbor
\* gives for it.
C20_FromCborDispatch ==
    last.op = "fromCbor" =>
        IF last.arg.type = Tagged
        THEN /\ last.ret = fromTaggedCbor(MakeItem(last.arg))
             /\ last.arg.tag # TAG_KNOWN_VALUE => last.ret = Thrown("Error")
        ELSE last.ret = fromUntaggedCbor(MakeItem(last.arg))

\* fromCbor has rejected an item with another tag and an unsigned payload
C20_Witness ==
    /\ last.op = "fromCbor"
    /\ last.arg.type = Tagged
    /\ last.arg.tag # TAG_KNOWN_VALUE
    /\ last.arg.inner = Unsigned
    /\ last.ret = Thrown("Error")

\* the two maps of a store that was created empty, after insert has been
\* called on the first i elements of ks in order
RECURSIVE InsertedInOrder(_, _)
InsertedInOrder(ks, i) ==
    IF i = 0 THEN <<EmptyMap, EmptyMap>>
    ELSE _insert(InsertedInOrder(ks, i - 1),
                 [knownValuesByRawValue |-> 1, knownValuesByAssignedName |-> 2],
                 ks[i])

C22_Immutable ==
    [][/\ Len(heap') >= Len(heap)
       /\ \A k \in 1..Len(heap) : heap'[k] = heap[k]
       /\ (last'.op = "insert" /\ last'.saw # NoRef /\ last'.saw # last'.arg) =>
            /\ maps'[stores'[last'.store].knownValuesByRawValue]
                     [heap'[last'.arg]._value] = last'.arg
            /\ heap'[last'.saw] = heap[last'.saw]
            /\ heap'[last'.saw]._value = heap'[last'.arg]._value
      ]_vars

\* an insert has replaced a named instance, which is no longer registered
\* and still has its name
C22_Witness ==
    /\ last.op = "insert"
    /\ last.saw # NoRef
    /\ last.saw # last.arg
    /\ ByValue(last.store)[heap[last.saw]._value] = last.arg
    /\ NonEmptyName(heap[last.saw]._assignedName)
    /\ heap[last.saw]._assignedName \notin DOMAIN ByName(last.store)

\* C23: knownValueForValue gives one result for a raw value v passed as a
\* number and passed as a bigint, the entry registered for v or undefined;
\* and an instance has the raw value it was constructed from, whether that
\* was a number or a bigint, so it is registered and found under the same
\* key.
C23_LookupNormalizes ==
    /\ last.op = "knownValueForValue" =>
         /\ last.ret = knownValueForValue(stores[last.store], JsNumber(last.arg.b))
         /\ last.ret = knownValueForValue(stores[last.store], JsBigInt(last.arg.b))
         /\ IF EntriesFor(last.store, last.arg.b) = {}
            THEN last.ret = Returned(NoRef)
            ELSE last.ret.v \in EntriesFor(last.store, last.arg.b)
    /\ (last.op = "new" /\ last.ret.err = "none") =>
         heap[last.ret.v]._value = last.arg[1].b
    /\ \A s \in StoreRefs : \A key \in DOMAIN ByValue(s) :
         heap[ByValue(s)[key]]._value = key

\* a raw value passed as a number has found the instance registered for it
C23_Witness ==
    /\ last.op = "knownValueForValue"
    /\ last.arg.kind = "number"
    /\ last.ret.err = "none"
    /\ last.ret.v # NoRef
    /\ heap[last.ret.v]._value = last.arg.b

\* C24: for a KnownValue with a non-negative raw value v, untaggedCbor() is
\* an unsigned integer item with value v and no tag; fromUntaggedCbor of its
\* decoded form is a KnownValue whose valueBigInt() is v; and fromTaggedCbor
\* of its decoded form raises a decode error.
C24_UntaggedRoundTrip ==
    /\ (last.op = "untaggedCbor" /\ ~BigLT(valueBigInt(heap[last.arg]), FromInt(0))) =>
         /\ last.ret.v.type = Unsigned
         /\ last.ret.v.tag = Undefined
         /\ last.ret.v.value = JsBigInt(valueBigInt(heap[last.arg]))
         /\ DecodedUntagged # {}
    /\ (last.op = "fromUntaggedCbor" /\ last.saw # NoRef
          /\ ~BigLT(valueBigInt(heap[last.saw]), FromInt(0))) =>
         /\ last.ret.err = "none"
         /\ valueBigInt(last.ret.v) = valueBigInt(heap[last.saw])
    /\ (last.op = "fromTaggedCbor" /\ last.saw # NoRef) =>
         last.ret = Thrown("Error")

\* the untagged form of a raw value above 2^53 - 1 has been decoded back
C24_Witness ==
    /\ last.op = "fromUntaggedCbor"
    /\ last.saw # NoRef
    /\ BigGT(valueBigInt(heap[last.saw]), MAX_SAFE_INTEGER)
    /\ last.ret.err = "none"
    /\ valueBigInt(last.ret.v) = valueBigInt(heap[last.saw])

(***************************************************************************)
(* C26.                                                                    *)
(***************************************************************************)
\* C26 as claimed: insert(K) removes from the name map only the name entry
\* of the value it replaces: a name that resolved before the insert to a
\* registered value whose raw value differs from K's resolves to that same
\* value after the insert, unless the name is K's own new assigned name.
C26_Claimed ==
    [][last'.op = "insert" =>
       \A s \in {last'.store}, k \in {last'.arg} :
        \A n \in DOMAIN ByName(s) :
            (/\ ByName(s)[n] \in EntriesFor(s, valueBigInt(heap[ByName(s)[n]]))
             /\ valueBigInt(heap[ByName(s)[n]]) # valueBigInt(heap[k])
             /\ n # assignedName(heap[k]))
            => knownValueNamed(stores[s], n)' = ByName(s)[n]
      ]_vars

(***************************************************************************)
(* C27.                                                                    *)
(***************************************************************************)
ReadOnlyOps == LookupOps \cup {"clone"}

\* C27: assignedName, name, knownValueNamed, knownValueForValue, clone and
\* the static helpers knownValueForRawValue, knownValueForName and
\* nameForKnownValue leave every existing store with the two maps it had,
\* holding the entries they held, whatever the argument is.
C27_ReadOnlyFrame ==
    [][last'.op \in ReadOnlyOps =>
       \A s \in StoreRefs :
           /\ stores'[s] = stores[s]
           /\ maps'[stores'[s].knownValuesByRawValue] = ByValue(s)
           /\ maps'[stores'[s].knownValuesByAssignedName] = ByName(s)
      ]_vars

\* a store that has entries has been cloned, and a name that has no entry
\* has been looked up in it
C27_Witness ==
    /\ Len(stores) = 2
    /\ last.op = "knownValueNamed"
    /\ last.store = 1
    /\ DOMAIN ByName(1) # {}
    /\ last.arg \notin DOMAIN ByName(1)
    /\ last.ret = Returned(NoRef)

(***************************************************************************)
(* Properties of the service worker.                                       *)
(***************************************************************************)
\* the event is a GET navigation request
GetNavigation(e) ==
    e.type = "fetch" /\ e.request.method = "GET" /\ e.request.mode = "navigate"

\* C25 as claimed: once install has precached the app shell, a GET
\* navigation request whose network fetch fails is answered with the cached
\* response for the request, or else with the cached app shell, and fails
\* only when neither is in a cache; and a request the network answers is
\* answered with the network's response, not with a cached one.
C25_Claimed ==
    [][GetNavigation(event') =>
        LET cached   == match(caches, event'.request.url)
            appShell == match(caches, APP_SHELL)
        IN  IF event'.network = NoResponse
            THEN /\ event'.response = IF cached # NoResponse THEN cached ELSE appShell
                 /\ event'.err = "none" <=> (cached # NoResponse \/ appShell # NoResponse)
            ELSE /\ event'.err = "none"
                 /\ event'.via \in {"network", "preload"}
                 /\ event'.response = event'.network
      ]_vars

\* cache cacheName of cs holds response for url
Held(cs, cacheName, url, response) ==
    \E j \in 1..Len(cs) :
        /\ cs[j].name = cacheName
        /\ url \in DOMAIN cs[j].entries
        /\ cs[j].entries[url] = response

\* the responses that cs2 holds where cs did not hold them
Written(cs, cs2) ==
    UNION {{cs2[i].entries[u] :
                u \in {w \in DOMAIN cs2[i].entries :
                          ~Held(cs, cs2[i].name, w, cs2[i].entries[w])}} :
           i \in 1..Len(cs2)}

\* the Cache-Control header of a response as text
CacheControl(response) ==
    IF response.cacheControl = Null THEN <<>> ELSE response.cacheControl.v

OkOrOpaque(response) ==
    response.status \in 200..299 \/ response.type = "opaque"

\* a cache the cleanup has to delete
Stale(c) == startsWith(c.name, CACHE_PREFIX) /\ c.name # CACHE_NAME

Range(seq) == {seq[i] : i \in 1..Len(seq)}

\* activation deletes the stale caches and leaves the others as they are
ActivationCleans ==
    (worker = "installed" /\ worker' = "activated") =>
        Range(caches') = {c \in Range(caches) : ~Stale(c)}

\* C28 as claimed: activation deletes every cache whose name starts with
\* the prefix and is not the current build's cache name, and leaves the
\* current build's cache and the caches without the prefix in place; and a
\* response the worker writes to a cache is ok or opaque, is no 206 partial
\* response and has no no-store in its Cache-Control.
C28_Claimed ==
    [][/\ ActivationCleans
       /\ worker' # "none" =>
            \A r \in Written(caches, caches') :
                /\ OkOrOpaque(r)
                /\ r.status # 206
                /\ ~includes(CacheControl(r), NO_STORE)
      ]_vars

\* C28 as amended: as claimed for activation; a response the worker writes
\* to a cache is ok or opaque and no 206 partial response, and a response
\* the fetch listener writes has no no-store in its Cache-Control (the
\* install listener's precache does not look at Cache-Control).
C28_CacheWrites ==
    [][/\ ActivationCleans
       /\ worker' # "none" =>
            \A r \in Written(caches, caches') :
                /\ OkOrOpaque(r)
                /\ r.status # 206
                /\ event'.type = "fetch" => ~includes(CacheControl(r), NO_STORE)
      ]_vars

\* after an activation that found a stale cache and a cache without the
\* prefix, the fetch listener has stored the network's response in the
\* current build's cache, and the cache without the prefix is in place
C28_Witness ==
    /\ event.type = "fetch"
    /\ event.via = "network"
    /\ Held(caches, CACHE_NAME, event.request.url, event.response)
    /\ event.response.type = "opaque"
    /\ \E c \in Range(caches) : ~startsWith(c.name, CACHE_PREFIX)
    /\ \A c \in Range(caches) : ~Stale(c)

(***************************************************************************)
(* Properties of the reconstruct screen and of the QRScanner.              *)
(***************************************************************************)
\* C29: the list of share inputs has at least 2 entries in every state:
\* doAddShareInput adds one entry, doRemoveShareInput removes one while
\* more than 2 exist and changes nothing otherwise, doUpdateShareInput and
\* doHandleScan at an existing index keep the length, and goHome leaves 2
\* empty entries.
C29_AtLeastTwoShares ==
    [][/\ Len(inputShares) >= 2
       /\ Len(inputShares') >= 2
       /\ call'.op = "doAddShareInput" => Len(inputShares') = Len(inputShares) + 1
       /\ call'.op = "doRemoveShareInput" =>
            IF Len(inputShares) > 2
            THEN Len(inputShares') = Len(inputShares) - 1
            ELSE inputShares' = inputShares
       /\ (call'.op \in {"doUpdateShareInput", "doHandleScan"}
              /\ call'.index \in 0..(Len(inputShares) - 1)) =>
            Len(inputShares') = Len(inputShares)
       /\ call'.op = "goHome" => inputShares' = <<EmptyString, EmptyString>>
      ]_vars

\* a removal was asked for and two inputs, one of them filled, are there
C29_Witness ==
    /\ call.op = "doRemoveShareInput"
    /\ Len(inputShares) = 2
    /\ \E i \in 1..2 : inputShares[i] # EmptyString

\* C30: whatever the scanner decodes and however the callbacks, the start
\* promise, the timers, Close and the cleanup interleave, onScan is called
\* at most once and with the first non-empty data decoded, the scanner is
\* stopped at most once and destroyed at most once, and it is stopped and
\* destroyed when onScan is called.
C30_AtMostOneScan ==
    /\ Len(session.onScan) <= 1
    /\ \A i \in 1..Len(session.onScan) :
           ~Falsy(session.first) /\ session.onScan[i] = session.first
    /\ session.stops <= 1
    /\ session.destroys <= 1
    /\ session.onScan # <<>> => session.stops = 1 /\ session.destroys = 1

\* onScan has been called in a session with several decode callbacks, whose
\* start promise was rejected and whose component has been cleaned up
C30_Witness ==
    /\ session.onScan # <<>>
    /\ session.decodes >= 2
    /\ ~session.isActive
    /\ session.start = "rejected"

=============================================================================
